---- MODULE Spec2Model ----
(***************************************************************************)
(* Storage core of the NVR: the chunk pool (a ring of pre-allocated pool   *)
(* files holding NREC records), the read-guard counters, the in-memory     *)
(* segment index and the global writer loop.                               *)
(*                                                                         *)
(* A pool file is modelled as its header fields plus its body, byte by     *)
(* byte, at the absolute file offsets the code uses.  Timestamps are       *)
(* instants counted in ticks of 1/TicksPerSec second; the record header    *)
(* stores whole unix seconds.                                              *)
(***************************************************************************)
EXTENDS Integers, Sequences, FiniteSets, TLC

\* ------------------------------------------------------------------------
\* Bounds of the model
\* ------------------------------------------------------------------------
MaxPools == 2
PoolCapacity == 100
MaxAppends == 4
MaxRotAppends == 3
MaxReopens == 1
NumReaders == 1
TicksPerSec == 2
MaxIdxInserts == 3
MaxSegments == 2
WriterQueueSize == 2
MaxKnob == 2
MaxPieces == 4
AttemptBits == 3
MaxReconnect == 3
MaxStreams == 2
MaxFrags == 3
MaxClock == 3

\* ------------------------------------------------------------------------
\* Program constants
\* ------------------------------------------------------------------------
POOL_HEADER_SIZE == 64
RECORD_HEADER_SIZE == 4 + 16 + 8 + 8 + 4
RECORD_MAGIC == <<78, 82, 69, 67>>
CAM_FIELD_LEN == 16
ROTATE_MAX_POLLS == 50
\* u32::MAX for an attempt counter of AttemptBits bits
U32_MAX == 2 ^ AttemptBits - 1
STREAM_CHANNEL_BOUND == 1

\* ------------------------------------------------------------------------
\* Inputs
\* ------------------------------------------------------------------------
\* camera ids as UTF-8 bytes: "cam0", "cam1"
Cam0 == <<99, 97, 109, 48>>
Cam1 == <<99, 97, 109, 49>>
Cameras == {Cam0, Cam1}
\* (start_ts, end_ts) in ticks: <<2, 4>> lies on second boundaries, <<3, 5>>
\* does not.  Payloads of 10 and 20 bytes fit in a pool, one of 70 does not.
Payload(seed, len) == [i \in 1..len |-> 160 + ((seed + i) % 16)]

Request(c, ts, seed, n) ==
    [camera_id |-> c, start_ts |-> ts[1], end_ts |-> ts[2],
     data |-> Payload(seed, n)]

WriteRequests ==
    { Request(Cam0, <<2, 4>>, 1, 10),
      Request(Cam1, <<3, 5>>, 2, 10),
      Request(Cam0, <<3, 5>>, 3, 20),
      Request(Cam1, <<2, 4>>, 4, 20),
      Request(Cam0, <<2, 4>>, 5, 70) }

\* the requests offered to the writer while reader tasks run
RotRequests ==
    { Request(Cam1, <<3, 5>>, 2, 10),
      Request(Cam0, <<3, 5>>, 3, 20),
      Request(Cam0, <<2, 4>>, 5, 70) }

\* the k-th (0-based) segment a camera worker flushes: cam0 sends payloads
\* of 10 bytes, cam1 one of 20 bytes, then one that fits in no pool, then
\* 20 bytes again
SegmentLen(c, k) == IF c = Cam0 THEN 10 ELSE IF k = 1 THEN 70 ELSE 20

CamRequest(c, k) ==
    Request(c, <<2 * k + 2, 2 * k + 4>>, k + (IF c = Cam0 THEN 0 ELSE 8),
            SegmentLen(c, k))

\* index operations: <<camera_id, start_ts, end_ts, pool_idx>> of an insert.
\* Three segments of cam0 are adjacent, [2,4) [4,6) [6,8); cam1 has a segment
\* over the middle span and one over the first.
IdxInputs ==
    { <<Cam0, 2, 4, 0>>,
      <<Cam0, 4, 6, 1>>,
      <<Cam0, 6, 8, 0>>,
      <<Cam1, 4, 6, 0>>,
      <<Cam1, 2, 4, 1>> }

\* <<from, to>> of a range query
IdxRanges == { <<4, 6>>, <<2, 8>>, <<3, 5>>, <<6, 4>> }

Slots == 0..(MaxPools - 1)
Readers == 1..NumReaders

\* ------------------------------------------------------------------------
\* Byte encodings
\* ------------------------------------------------------------------------
Min(a, b) == IF a < b THEN a ELSE b

\* DateTime::timestamp(): whole unix seconds of an instant
timestamp(t) == t \div TicksPerSec
\* Utc.timestamp_opt(secs, 0): the instant at a whole second
timestamp_opt(secs) == secs * TicksPerSec

\* k-th (0-based) byte of the little-endian two's complement form of v,
\* for |v| < 2^31
LEByte(v, k) ==
    IF k < 4 THEN (v \div (256 ^ k)) % 256
    ELSE IF v < 0 THEN 255 ELSE 0

\* value of a little-endian field of n bytes whose upper bytes are the
\* sign extension of its low four
LEValue(b, n) ==
    LET low == b[1] + 256 * b[2] + 65536 * b[3] + 16777216 * (b[4] % 128)
    IN  IF b[n] >= 128 /\ n > 4 THEN low - 1073741824 - 1073741824
        ELSE low

\* camera_id field: 16 bytes, zero padded, longer ids cut
cam_bytes(camera_id) ==
    [i \in 1..CAM_FIELD_LEN |->
        IF i <= Min(Len(camera_id), CAM_FIELD_LEN) THEN camera_id[i] ELSE 0]

RECURSIVE trim_end_zeros(_)
trim_end_zeros(s) ==
    IF s = <<>> THEN s
    ELSE IF s[Len(s)] = 0 THEN trim_end_zeros(SubSeq(s, 1, Len(s) - 1))
    ELSE s

\* the 40 header bytes followed by the payload
RecordBytes(req) ==
    RECORD_MAGIC
    \o cam_bytes(req.camera_id)
    \o [k \in 1..8 |-> LEByte(timestamp(req.start_ts), k - 1)]
    \o [k \in 1..8 |-> LEByte(timestamp(req.end_ts), k - 1)]
    \o [k \in 1..4 |-> LEByte(Len(req.data), k - 1)]
    \o req.data

\* bytes [off, off+n) of a pool file body
FileBytes(body, off, n) == [i \in 1..n |-> body[off + i - 1]]

\* seek(off); write_all(bytes)
FileWrite(body, off, bytes) ==
    [o \in DOMAIN body |->
        IF o >= off /\ o < off + Len(bytes) THEN bytes[o - off + 1] ELSE body[o]]

\* what a pool file body can hold when the process finds it at start-up: a
\* whole record, a record header whose declared payload runs past the end
\* of the pool body (a torn record), or four bytes that are not NREC
Pieces ==
    { [kind |-> "rec", req |-> Request(Cam0, <<3, 5>>, 1, 10)],
      [kind |-> "rec", req |-> Request(Cam1, <<2, 4>>, 2, 0)],
      [kind |-> "torn", req |-> Request(Cam0, <<2, 4>>, 5, PoolCapacity)],
      [kind |-> "junk", req |-> Request(Cam0, <<2, 4>>, 0, 0)] }

PieceBytes(p) ==
    IF p.kind = "rec" THEN RecordBytes(p.req)
    ELSE IF p.kind = "torn" THEN SubSeq(RecordBytes(p.req), 1, RECORD_HEADER_SIZE)
    ELSE <<255, 255, 255, 255>>

RECURSIVE PiecesLen(_)
PiecesLen(q) ==
    IF q = <<>> THEN 0 ELSE Len(PieceBytes(Head(q))) + PiecesLen(Tail(q))

\* ------------------------------------------------------------------------
\* State
\* ------------------------------------------------------------------------
VARIABLES
    slots,          \* ChunkPool.slots: slot -> [pool_id, bytes_used]
    write_idx,      \* ChunkPool.write_idx
    disk,           \* pool files: slot -> [magic, pool_id, body]
    counters,       \* PoolReadCounters.counters: slot -> number of guards
    index,          \* SegmentIndex: [entries, segment_counter]
    scanned,        \* result of the last scan_all_pools() at startup
    wpc,            \* position of the writer task
    wreq,           \* request the writer is processing
    wloc,           \* location returned by the writer's append
    waited,         \* rotate(): polls slept so far
    stalled,        \* rotate(): readers were still present at line 286
    rpc,            \* position of each reader task
    rseg,           \* segment each reader found in the index
    rdata,          \* bytes each reader got from read_segment_data
    hist,           \* history: every record appended, with its location
    rot_ids,        \* history: pool_ids assigned by rotations since open
    reopens,        \* history: number of re-opens since the fresh open
    budget,         \* bound: number of records the writer may append
    cfg,            \* Config: the knobs parsed from the TOML file
    boot,           \* position of the process in run_record
    started,        \* what RecordingManager::new has brought up so far
    pieces,         \* history: what was laid into each pool body by hand
    sup_pc,         \* position of the stream supervisor task
    attempt,        \* supervised_connect: attempt
    sup_n,          \* CameraConfig.max_reconnect_attempts
    stream_q,       \* streams buffered in the stream channel (capacity 1)
    stream_rx,      \* the Receiver of the stream channel still exists
    fails,          \* history: failed connects since the last success
    w_abort,        \* writer_handle.abort() was called
    wk_pc,          \* position of the ingestion worker in run()
    segment_buf,    \* run(): segment_buf
    seg_start,      \* run(): seg_start
    deadline,       \* run(): deadline
    now,            \* the clock read by Utc::now() and Instant::now()
    src_open,       \* the stream's pipeline still delivers buffers
    received,       \* history: every fragment read_buffer() returned
    wk_req,         \* flush_segment: the WriteRequest being sent
    wk_site,        \* flush_segment: the match arm it was called from
    streams,        \* history: number of streams the worker was handed
    queue,          \* mpsc channel: the WriteRequests buffered in it
    ipc,            \* position of each camera worker
    isent,          \* segments each camera worker has flushed so far
    mgr_tx,         \* the manager still holds its Sender
    sent,           \* history: every request the channel accepted, in order
    qclose,         \* history: requests buffered when the last Sender went
    qarg,           \* index operation last applied, with its arguments
    qres,           \* result of the last index query
    ix_log,         \* history: every entry inserted, with a live flag
    op              \* history: the operation that produced this state

cfgVars == <<cfg, boot, started>>
supVars == <<sup_pc, attempt, sup_n, stream_q, stream_rx, fails>>
lifeVars == <<w_abort>>
ingVars == <<wk_pc, segment_buf, seg_start, deadline, now, src_open, received,
            wk_req, wk_site, streams>>
chanVars == <<queue, ipc, isent, mgr_tx, sent, qclose>>
idxVars == <<qarg, qres, ix_log>>

vars == <<slots, write_idx, disk, counters, index, scanned, wpc, wreq, wloc,
          waited, stalled, rpc, rseg, rdata, hist, rot_ids, reopens, budget, cfgVars, pieces,
          supVars, lifeVars, ingVars,
          chanVars, idxVars, op>>

\* ------------------------------------------------------------------------
\* Chunk pool: pure parts
\* ------------------------------------------------------------------------
NoLoc == [pool_idx |-> 0, pool_id |-> 0, record_offset |-> 0, record_size |-> 0]
NoReq == [camera_id |-> <<>>, start_ts |-> 0, end_ts |-> 0, data |-> <<>>]

\* a pre-allocated file: File::create + set_len, all zero
FreshFile ==
    [magic |-> FALSE, pool_id |-> 0,
     body |-> [o \in POOL_HEADER_SIZE..(POOL_HEADER_SIZE + PoolCapacity - 1) |-> 0]]

\* read_pool_header: (0, _) unless the magic is NVRPOOL0
read_pool_header(file) == IF file.magic THEN file.pool_id ELSE 0

\* a header write that re-creates the file, wiping its body
write_pool_header_truncating(dk, sl, idx) ==
    [dk EXCEPT ![idx] = [magic |-> TRUE, pool_id |-> sl[idx].pool_id,
                         body |-> FreshFile.body]]

\* write_pool_header(idx): magic, slot.pool_id, created_at, reserved
write_pool_header(dk, sl, idx) ==
    [dk EXCEPT ![idx].magic = TRUE, ![idx].pool_id = sl[idx].pool_id]

\* scan_records: the loop from `offset`
RECURSIVE scan_from(_, _, _, _, _)
scan_from(body, pool_idx, pool_id, offset, limit) ==
    IF offset + RECORD_HEADER_SIZE > limit THEN <<>>
    ELSE IF FileBytes(body, offset, 4) # RECORD_MAGIC THEN <<>>
    ELSE
        LET camera_id == trim_end_zeros(FileBytes(body, offset + 4, CAM_FIELD_LEN))
            start_ts_unix == LEValue(FileBytes(body, offset + 20, 8), 8)
            end_ts_unix == LEValue(FileBytes(body, offset + 28, 8), 8)
            data_len == LEValue(FileBytes(body, offset + 36, 4), 4)
            record_size == RECORD_HEADER_SIZE + data_len
        IN  IF offset + record_size > limit THEN <<>>
            ELSE <<[camera_id |-> camera_id,
                    start_ts |-> timestamp_opt(start_ts_unix),
                    end_ts |-> timestamp_opt(end_ts_unix),
                    pool_idx |-> pool_idx,
                    pool_id |-> pool_id,
                    record_offset |-> offset,
                    record_size |-> record_size]>>
                 \o scan_from(body, pool_idx, pool_id, offset + record_size, limit)

\* a scan whose limit leaves the pool header out
scan_records_short_limit(file, pool_idx, pool_id, pool_capacity) ==
    scan_from(file.body, pool_idx, pool_id, POOL_HEADER_SIZE, pool_capacity)

scan_records(file, pool_idx, pool_id, pool_capacity) ==
    scan_from(file.body, pool_idx, pool_id, POOL_HEADER_SIZE,
              POOL_HEADER_SIZE + pool_capacity)

RECURSIVE SumSizes(_)
SumSizes(recs) ==
    IF recs = <<>> THEN 0 ELSE Head(recs).record_size + SumSizes(Tail(recs))

\* sort_by_key(|r| (r.pool_id, r.record_offset)): stable
ScanKeyLeq(a, b) ==
    \/ a.pool_id < b.pool_id
    \/ a.pool_id = b.pool_id /\ a.record_offset <= b.record_offset

RECURSIVE InsertSorted(_, _)
InsertSorted(sorted, r) ==
    IF sorted = <<>> THEN <<r>>
    ELSE IF ScanKeyLeq(sorted[Len(sorted)], r) THEN Append(sorted, r)
    ELSE Append(InsertSorted(SubSeq(sorted, 1, Len(sorted) - 1), r),
                sorted[Len(sorted)])

RECURSIVE sort_by_key(_)
sort_by_key(all) ==
    IF all = <<>> THEN <<>>
    ELSE InsertSorted(sort_by_key(SubSeq(all, 1, Len(all) - 1)), all[Len(all)])

RECURSIVE scan_slots(_, _, _)
scan_slots(dk, sl, i) ==
    IF i >= MaxPools THEN <<>>
    ELSE scan_records(dk[i], i, sl[i].pool_id, PoolCapacity)
         \o scan_slots(dk, sl, i + 1)

scan_all_pools(dk, sl) == sort_by_key(scan_slots(dk, sl, 0))

\* open() over existing files: the slot adopted for file i
open_slot(dk, i) ==
    LET pid == read_pool_header(dk[i])
    IN  [pool_id |-> pid,
         bytes_used |-> SumSizes(scan_records(dk[i], i, pid, PoolCapacity))]

\* open(): best_idx after the loop has visited slots 0..i-1
RECURSIVE best_idx_upto(_, _)
best_idx_upto(dk, i) ==
    IF i = 0 THEN [best_idx |-> 0, best_pool_id |-> 0]
    ELSE LET prev == best_idx_upto(dk, i - 1)
             pid == read_pool_header(dk[i - 1])
         IN  IF pid >= prev.best_pool_id
             THEN [best_idx |-> i - 1, best_pool_id |-> pid]
             ELSE prev

open_write_idx(dk) == best_idx_upto(dk, MaxPools).best_idx

\* a rotation that keeps the fill level of the slot
rotate_slot_keeping_bytes(sl, w) ==
    [sl EXCEPT ![w] = [pool_id |-> @.pool_id + MaxPools,
                       bytes_used |-> @.bytes_used]]

\* a rotation that bumps the pool_id by one
rotate_slot_plus_one(sl, w) ==
    [sl EXCEPT ![w] = [pool_id |-> @.pool_id + 1, bytes_used |-> 0]]

\* rotate(): the slot state after `pool_id += num_slots; bytes_used = 0`
rotate_slot(sl, w) ==
    [sl EXCEPT ![w] = [pool_id |-> @.pool_id + MaxPools, bytes_used |-> 0]]

\* a location that leaves the pool header out of the offset
append_loc_from_zero(sl, w, record_size) ==
    [pool_idx |-> w,
     pool_id |-> sl[w].pool_id,
     record_offset |-> sl[w].bytes_used,
     record_size |-> record_size]

\* append(): the location of a record of record_size written at slot w
append_loc(sl, w, record_size) ==
    [pool_idx |-> w,
     pool_id |-> sl[w].pool_id,
     record_offset |-> POOL_HEADER_SIZE + sl[w].bytes_used,
     record_size |-> record_size]

\* a read that does not skip the record header
read_segment_data_from_header(dk, loc) ==
    FileBytes(dk[loc.pool_idx].body,
              loc.record_offset,
              loc.record_size - RECORD_HEADER_SIZE)

\* read_segment_data(loc)
read_segment_data(dk, loc) ==
    FileBytes(dk[loc.pool_idx].body,
              loc.record_offset + RECORD_HEADER_SIZE,
              loc.record_size - RECORD_HEADER_SIZE)

\* ------------------------------------------------------------------------
\* Segment index: pure parts
\* ------------------------------------------------------------------------
EmptyIndex == [entries |-> {}, segment_counter |-> 0]

\* insert lines 58 and 75: the id returned to the caller
insert_id(ix) == ix.segment_counter

\* an insert that numbers the entry by the size of the map
insert_numbering_by_len(ix, camera_id, start_ts, end_ts, location) ==
    [entries |-> ix.entries \cup
        {[segment_id |-> Cardinality(ix.entries),
          camera_id |-> camera_id,
          start_ts |-> start_ts,
          end_ts |-> end_ts,
          location |-> location]},
     segment_counter |-> ix.segment_counter + 1]

insert(ix, camera_id, start_ts, end_ts, location) ==
    [entries |-> ix.entries \cup
        {[segment_id |-> ix.segment_counter,
          camera_id |-> camera_id,
          start_ts |-> start_ts,
          end_ts |-> end_ts,
          location |-> location]},
     segment_counter |-> ix.segment_counter + 1]

\* an eviction that compares the generation, not the slot
evict_pool_by_pool_id(ix, pool_idx) ==
    [ix EXCEPT !.entries = {e \in @ : e.location.pool_id # pool_idx}]

evict_pool(ix, pool_idx) ==
    [ix EXCEPT !.entries = {e \in @ : e.location.pool_idx # pool_idx}]

RECURSIVE insert_all(_, _)
insert_all(ix, records) ==
    IF records = <<>> THEN ix
    ELSE LET r == Head(records)
         IN  insert_all(
                insert(ix, r.camera_id, r.start_ts, r.end_ts,
                       [pool_idx |-> r.pool_idx, pool_id |-> r.pool_id,
                        record_offset |-> r.record_offset,
                        record_size |-> r.record_size]),
                Tail(records))

\* a rebuild that leaves the counter at one after the clear
rebuild_counting_from_one(records) ==
    insert_all([entries |-> {}, segment_counter |-> 1], records)

rebuild_from_scanned(records) == insert_all(EmptyIndex, records)

\* a key order that looks at the segment_id alone
IndexKeyLess_by_id(a, b) == a.segment_id < b.segment_id

\* entries of one camera in key order (start_ts, segment_id)
IndexKeyLess(a, b) ==
    \/ a.start_ts < b.start_ts
    \/ a.start_ts = b.start_ts /\ a.segment_id < b.segment_id

RECURSIVE SeqOfEntries(_)
SeqOfEntries(S) ==
    IF S = {} THEN <<>>
    ELSE LET m == CHOOSE x \in S : \A y \in S \ {x} : IndexKeyLess(x, y)
         IN  <<m>> \o SeqOfEntries(S \ {m})

segments_for_camera(ix, camera_id) ==
    SeqOfEntries({e \in ix.entries : e.camera_id = camera_id})

\* a range filter with closed ends
in_range_closed(m, camera_id, from, to) ==
    m.camera_id = camera_id /\ m.start_ts <= to /\ m.end_ts >= from

\* segments_in_range: the filter of lines 100-102
in_range(m, camera_id, from, to) ==
    m.camera_id = camera_id /\ m.start_ts < to /\ m.end_ts > from

segments_in_range(ix, camera_id, from, to) ==
    SeqOfEntries({m \in ix.entries : in_range(m, camera_id, from, to)})

\* Ord of String: byte-wise lexicographic
RECURSIVE StringLess(_, _)
StringLess(a, b) ==
    IF b = <<>> THEN FALSE
    ELSE IF a = <<>> THEN TRUE
    ELSE IF Head(a) # Head(b) THEN Head(a) < Head(b)
    ELSE StringLess(Tail(a), Tail(b))

\* derived Ord of IndexKey: camera_id, then start_ts, then segment_id
IndexKeyOrd(a, b) ==
    \/ StringLess(a.camera_id, b.camera_id)
    \/ a.camera_id = b.camera_id /\ IndexKeyLess(a, b)

RECURSIVE ValuesInKeyOrder(_)
ValuesInKeyOrder(S) ==
    IF S = {} THEN <<>>
    ELSE LET m == CHOOSE x \in S : \A y \in S \ {x} : IndexKeyOrd(x, y)
         IN  <<m>> \o ValuesInKeyOrder(S \ {m})

\* all_segments: entries.values() of the BTreeMap
all_segments(ix) == ValuesInKeyOrder(ix.entries)

\* ------------------------------------------------------------------------
\* Configuration and start-up
\* ------------------------------------------------------------------------
\* the knobs of Config / StorageConfig; cameras is the list of camera ids
Configs ==
    [cameras : SUBSET Cameras,
     chunk_size_mb : 0..MaxKnob,
     max_pools : 0..MaxKnob,
     segment_duration_secs : 0..MaxKnob,
     writer_queue_size : 0..MaxKnob]

\* the configuration the storage model runs under (pool size scaled to
\* PoolCapacity bytes)
RunningConfig ==
    [cameras |-> Cameras,
     chunk_size_mb |-> 1,
     max_pools |-> MaxPools,
     segment_duration_secs |-> 1,
     writer_queue_size |-> WriterQueueSize]

\* Config::validate: "ok" or the message of the NvrError::Config returned
validate(c) ==
    IF c.cameras = {} THEN "No cameras defined"
    ELSE IF c.chunk_size_mb = 0 THEN "chunk_size_mb must be > 0"
    ELSE IF c.max_pools = 0 THEN "max_pools must be > 0"
    ELSE IF c.segment_duration_secs = 0
         THEN "segment_duration_secs must be > 0"
    ELSE "ok"

NothingStarted == [pool |-> FALSE, writer |-> FALSE, workers |-> {}]

\* ------------------------------------------------------------------------
\* Initial state: ChunkPool::open on an empty directory, spawn_writer, and
\* the writer's startup scan and rebuild (both empty)
\* ------------------------------------------------------------------------
NoQuery == [fn |-> "none"]

FreshSlots == [i \in Slots |-> [pool_id |-> i, bytes_used |-> 0]]

PoolStarted ==
    /\ slots = FreshSlots
    /\ write_idx = 0
    /\ disk = write_pool_header([i \in Slots |-> FreshFile], FreshSlots, 0)
    /\ counters = [i \in Slots |-> 0]
    /\ scanned = scan_all_pools([i \in Slots |-> FreshFile], FreshSlots)
    /\ index = rebuild_from_scanned(<<>>)
    /\ wpc = "recv"
    /\ wreq = NoReq
    /\ wloc = NoLoc
    /\ waited = 0
    /\ stalled = FALSE
    /\ rpc = [r \in Readers |-> "idle"]
    /\ rseg = [r \in Readers |-> NoLoc]
    /\ rdata = [r \in Readers |-> <<>>]
    /\ hist = <<>>
    /\ rot_ids = <<>>
    /\ reopens = 0
    /\ queue = <<>>
    /\ ipc = [c \in Cameras |-> "collect"]
    /\ isent = [c \in Cameras |-> 0]
    /\ mgr_tx = TRUE
    /\ sent = <<>>
    /\ qclose = 0
    /\ qarg = NoQuery
    /\ qres = <<>>
    /\ ix_log = <<>>
    /\ op = "open"

\* the process has loaded RunningConfig and RecordingManager::new returned Ok
StorageStarted ==
    /\ PoolStarted
    /\ cfg = RunningConfig
    /\ boot = "running"
    /\ started = [pool |-> TRUE, writer |-> TRUE, workers |-> Cameras]
    /\ pieces = [i \in Slots |-> <<>>]

\* supervised_connect lines 122-128: the task is at the top of its loop
SupStarted ==
    /\ sup_pc = "check"
    /\ attempt = 0
    /\ stream_q = 0
    /\ stream_rx = TRUE
    /\ fails = 0

\* manager.rs lines 136-145 have not run: the writer task is not aborted
LifeStarted == w_abort = FALSE

\* ingestion.rs line 54: the worker waits for its first stream, nothing is
\* buffered and nothing was read
IngStarted ==
    /\ wk_pc = "wait_stream"
    /\ segment_buf = <<>>
    /\ seg_start = 0
    /\ deadline = 0
    /\ now = 0
    /\ src_open = FALSE
    /\ received = <<>>
    /\ wk_req = NoReq
    /\ wk_site = "none"
    /\ streams = 0

Started ==
    /\ StorageStarted
    /\ SupStarted
    /\ LifeStarted
    /\ IngStarted
    /\ sup_n = 0

Init == Started /\ budget = MaxAppends

\* ------------------------------------------------------------------------
\* Global writer, one request at a time
\* ------------------------------------------------------------------------
record_size_of(data) == RECORD_HEADER_SIZE + Len(data)

\* a forecast that leaves the record size out
writer_expects_rotation_no_size(used, record_size, cap) == used > cap

\* writer_loop line 99: the writer's own forecast of a rotation
writer_expects_rotation(used, record_size, cap) == used + record_size > cap

\* a size check that leaves the record header out
segment_too_large_payload_only(record_size, cap) ==
    record_size - RECORD_HEADER_SIZE > cap

\* append line 226
segment_too_large(record_size, cap) == record_size > cap

\* a rotation test that also fires when the record fills the slot exactly
current_slot_full_inclusive(used, record_size, cap) ==
    used + record_size >= cap

\* append line 234
current_slot_full(used, record_size, cap) == used + record_size > cap

\* history: the records of slot w die when w is rotated into
KillSlot(h, w) ==
    [i \in DOMAIN h |->
        IF h[i].loc.pool_idx = w THEN [h[i] EXCEPT !.live = FALSE] ELSE h[i]]

writerVars == <<wpc, wreq, wloc, waited, stalled>>
readerVars == <<rpc, rseg, rdata>>
poolVars == <<slots, write_idx, disk>>

\* a writer that goes to the append without evicting
Recv_without_eviction(req) ==
    /\ wpc = "recv"
    /\ Len(hist) < budget
    /\ wreq' = req
    /\ index' = index
    /\ wpc' = "append"
    /\ op' = "recv"
    /\ UNCHANGED <<poolVars, counters, scanned, wloc, waited, stalled,
                   readerVars, hist, rot_ids, reopens, budget, cfgVars,
                   pieces, supVars, lifeVars, ingVars, idxVars>>

\* writer_loop lines 96-103 for a received request: pool.status() and the
\* eviction before a rotation
Recv(req) ==
    /\ wpc = "recv"
    /\ Len(hist) < budget
    /\ wreq' = req
    /\ LET cur_idx == write_idx
           used == slots[write_idx].bytes_used
           next_idx == (cur_idx + 1) % MaxPools
       IN  index' = IF writer_expects_rotation(used, record_size_of(req.data),
                                               PoolCapacity)
                    THEN evict_pool(index, next_idx)
                    ELSE index
    /\ wpc' = "append"
    /\ op' = "recv"
    /\ UNCHANGED <<poolVars, counters, scanned, wloc, waited, stalled,
                   readerVars, hist, rot_ids, reopens, budget, cfgVars,
                   pieces, supVars, lifeVars, ingVars, idxVars>>

\* rx.recv() yields a request
WriterRecv(req) == Recv(req) /\ UNCHANGED chanVars

\* pool.append(): Err for a record larger than a pool
WriterAppendErr ==
    /\ wpc = "append"
    /\ segment_too_large(record_size_of(wreq.data), PoolCapacity)
    /\ wpc' = "recv"
    /\ wreq' = NoReq
    /\ op' = "append_err"
    /\ UNCHANGED <<poolVars, counters, index, scanned, wloc, waited, stalled,
                   readerVars, hist, rot_ids, reopens, budget, cfgVars,
                   pieces, supVars, lifeVars, ingVars, chanVars,
                   idxVars>>

\* pool.append() with no reader task running: rotate() finds no readers
WriterAppend ==
    /\ wpc = "append"
    /\ ~segment_too_large(record_size_of(wreq.data), PoolCapacity)
    /\ \A s \in Slots : counters[s] = 0
    /\ LET record_size == record_size_of(wreq.data)
           rot == current_slot_full(slots[write_idx].bytes_used, record_size,
                                    PoolCapacity)
           w == IF rot THEN (write_idx + 1) % MaxPools ELSE write_idx
           sl == IF rot THEN rotate_slot(slots, w) ELSE slots
           dk == IF rot THEN write_pool_header(disk, sl, w) ELSE disk
           loc == append_loc(sl, w, record_size)
       IN  /\ write_idx' = w
           /\ slots' = [sl EXCEPT ![w].bytes_used = @ + record_size]
           /\ disk' = [dk EXCEPT ![w].body =
                          FileWrite(@, loc.record_offset, RecordBytes(wreq))]
           /\ wloc' = loc
           /\ hist' = Append(IF rot THEN KillSlot(hist, w) ELSE hist,
                             [req |-> wreq, loc |-> loc, live |-> TRUE])
           /\ rot_ids' = IF rot THEN Append(rot_ids, sl[w].pool_id) ELSE rot_ids
           /\ op' = IF rot THEN "append_rotate" ELSE "append"
    /\ wpc' = "insert"
    /\ UNCHANGED <<counters, index, scanned, wreq, waited, stalled,
                   readerVars, reopens, budget, cfgVars, pieces,
                   supVars, lifeVars, ingVars, chanVars,
                   idxVars>>

\* index.write().insert(camera_id, start_ts, end_ts, loc)
WriterInsert ==
    /\ wpc = "insert"
    /\ index' = insert(index, wreq.camera_id, wreq.start_ts, wreq.end_ts, wloc)
    /\ wpc' = "recv"
    /\ wreq' = NoReq
    /\ op' = "insert"
    /\ UNCHANGED <<poolVars, counters, scanned, wloc, waited, stalled,
                   readerVars, hist, rot_ids, reopens, budget, cfgVars,
                   pieces, supVars, lifeVars, ingVars, chanVars,
                   idxVars>>

\* the process stops (pool dropped) and starts again on the same files:
\* ChunkPool::open, then the writer's scan_all_pools and rebuild_from_scanned
Reopen ==
    /\ reopens < MaxReopens
    /\ LET sl == [i \in Slots |-> open_slot(disk, i)]
       IN  /\ slots' = sl
           /\ write_idx' = open_write_idx(disk)
           /\ scanned' = scan_all_pools(disk, sl)
           /\ index' = rebuild_from_scanned(scan_all_pools(disk, sl))
    /\ counters' = [i \in Slots |-> 0]
    /\ wpc' = "recv"
    /\ wreq' = NoReq
    /\ wloc' = NoLoc
    /\ waited' = 0
    /\ stalled' = FALSE
    /\ rpc' = [r \in Readers |-> "idle"]
    /\ rseg' = [r \in Readers |-> NoLoc]
    /\ rdata' = [r \in Readers |-> <<>>]
    /\ reopens' = reopens + 1
    /\ op' = "reopen"
    /\ UNCHANGED <<disk, hist, rot_ids, budget, cfgVars, pieces,
                   supVars, lifeVars, ingVars, chanVars,
                   idxVars>>

Next ==
    \/ \E req \in WriteRequests : WriterRecv(req)
    \/ WriterAppendErr
    \/ WriterAppend
    \/ WriterInsert
    \/ Reopen

Spec == Init /\ [][Next]_vars

TypeOK ==
    /\ write_idx \in Slots
    /\ \A s \in Slots : slots[s].bytes_used \in 0..PoolCapacity
    /\ \A s \in Slots : counters[s] \in 0..NumReaders
    /\ waited \in 0..ROTATE_MAX_POLLS

\* ------------------------------------------------------------------------
\* The writer's append, step by step, next to reader tasks
\* ------------------------------------------------------------------------
has_readers(c, pool_idx) == c[pool_idx] > 0

\* PoolReadCounters::acquire: fetch_add(1)
acquire(c, pool_idx) == [c EXCEPT ![pool_idx] = @ + 1]

\* a drop that does not give back the last guard of a slot
release_keeps_last(c, pool_idx) ==
    [c EXCEPT ![pool_idx] = IF @ > 1 THEN @ - 1 ELSE @]

\* PoolReadCounters::release: fetch_sub(1)
release(c, pool_idx) == [c EXCEPT ![pool_idx] = @ - 1]

\* a wait loop without the poll limit
rotate_waits_for_readers(c, pool_idx, w) == has_readers(c, pool_idx)

\* rotate() line 282: the loop goes on sleeping
rotate_keeps_waiting(c, pool_idx, w) ==
    has_readers(c, pool_idx) /\ w < ROTATE_MAX_POLLS

\* append() lines 224-236 and rotate() line 278: size checks, and the
\* advance of write_idx when the current slot is full
AppendBegin ==
    /\ wpc = "append"
    /\ ~segment_too_large(record_size_of(wreq.data), PoolCapacity)
    /\ IF current_slot_full(slots[write_idx].bytes_used,
                            record_size_of(wreq.data), PoolCapacity)
       THEN /\ write_idx' = (write_idx + 1) % MaxPools
            /\ wpc' = "rotate_poll"
       ELSE /\ write_idx' = write_idx
            /\ wpc' = "write"
    /\ waited' = 0
    /\ stalled' = FALSE
    /\ op' = "append_begin"
    /\ UNCHANGED <<slots, disk, counters, index, scanned, wreq, wloc,
                   readerVars, hist, rot_ids, reopens, budget, cfgVars,
                   pieces, supVars, lifeVars, ingVars, chanVars,
                   idxVars>>

\* rotate() lines 282-285: readers present, sleep 100 ms
RotateSleep ==
    /\ wpc = "rotate_poll"
    /\ rotate_keeps_waiting(counters, write_idx, waited)
    /\ waited' = waited + 1
    /\ op' = "rotate_sleep"
    /\ UNCHANGED <<poolVars, counters, index, scanned, wpc, wreq, wloc,
                   stalled, readerVars, hist, rot_ids, reopens, budget, cfgVars,
                   pieces, supVars, lifeVars, ingVars, chanVars,
                   idxVars>>

\* rotate() line 282: the loop ends, no readers or 50 polls done
RotateLoopExit ==
    /\ wpc = "rotate_poll"
    /\ ~rotate_keeps_waiting(counters, write_idx, waited)
    /\ wpc' = "rotate_check"
    /\ op' = "rotate_loop_exit"
    /\ UNCHANGED <<poolVars, counters, index, scanned, wreq, wloc, waited,
                   stalled, readerVars, hist, rot_ids, reopens, budget, cfgVars,
                   pieces, supVars, lifeVars, ingVars, chanVars,
                   idxVars>>

\* rotate() lines 286-291: warn when readers are present, go on either way
RotateCheck ==
    /\ wpc = "rotate_check"
    /\ stalled' = has_readers(counters, write_idx)
    /\ wpc' = "rotate_write"
    /\ op' = "rotate_check"
    /\ UNCHANGED <<poolVars, counters, index, scanned, wreq, wloc, waited,
                   readerVars, hist, rot_ids, reopens, budget, cfgVars,
                   pieces, supVars, lifeVars, ingVars, chanVars,
                   idxVars>>

\* rotate() lines 293-303: new pool_id, bytes_used = 0, header rewritten
RotateWrite ==
    /\ wpc = "rotate_write"
    /\ LET sl == rotate_slot(slots, write_idx)
       IN  /\ slots' = sl
           /\ disk' = write_pool_header(disk, sl, write_idx)
           /\ rot_ids' = Append(rot_ids, sl[write_idx].pool_id)
    /\ hist' = KillSlot(hist, write_idx)
    /\ wpc' = "write"
    /\ op' = "rotate"
    /\ UNCHANGED <<write_idx, counters, index, scanned, wreq, wloc, waited,
                   stalled, readerVars, reopens, budget, cfgVars,
                   pieces, supVars, lifeVars, ingVars, chanVars,
                   idxVars>>

\* append() lines 238-271: the record is written at 64 + bytes_used
WriteRecord ==
    /\ wpc = "write"
    /\ LET record_size == record_size_of(wreq.data)
           loc == append_loc(slots, write_idx, record_size)
       IN  /\ slots' = [slots EXCEPT ![write_idx].bytes_used = @ + record_size]
           /\ disk' = [disk EXCEPT ![write_idx].body =
                          FileWrite(@, loc.record_offset, RecordBytes(wreq))]
           /\ wloc' = loc
           /\ hist' = Append(hist, [req |-> wreq, loc |-> loc, live |-> TRUE])
    /\ wpc' = "insert"
    /\ op' = IF op = "rotate" THEN "append_rotate" ELSE "append"
    /\ UNCHANGED <<write_idx, counters, index, scanned, wreq, waited, stalled,
                   readerVars, rot_ids, reopens, budget, cfgVars,
                   pieces, supVars, lifeVars, ingVars, chanVars,
                   idxVars>>

\* handle_hls_segment: the segment is looked up under index.read()
ReaderLookup(r) ==
    /\ rpc[r] = "idle"
    /\ \E e \in index.entries :
          rseg' = [rseg EXCEPT ![r] = e.location]
    /\ rpc' = [rpc EXCEPT ![r] = "found"]
    /\ rdata' = [rdata EXCEPT ![r] = <<>>]
    /\ UNCHANGED <<poolVars, counters, index, scanned, writerVars, hist,
                   rot_ids, reopens, budget, cfgVars, pieces,
                   supVars, lifeVars, ingVars, chanVars,
                   idxVars, op>>

\* read_counters.acquire(seg.location.pool_idx): fetch_add(1)
ReaderAcquire(r) ==
    /\ rpc[r] = "found"
    /\ counters' = acquire(counters, rseg[r].pool_idx)
    /\ rpc' = [rpc EXCEPT ![r] = "guarded"]
    /\ UNCHANGED <<poolVars, index, scanned, writerVars, rseg, rdata, hist,
                   rot_ids, reopens, budget, cfgVars, pieces,
                   supVars, lifeVars, ingVars, chanVars,
                   idxVars, op>>

\* pool.read_segment_data(&seg.location) under the guard
ReaderRead(r) ==
    /\ rpc[r] = "guarded"
    /\ rdata' = [rdata EXCEPT ![r] = read_segment_data(disk, rseg[r])]
    /\ rpc' = [rpc EXCEPT ![r] = "read"]
    /\ UNCHANGED <<poolVars, counters, index, scanned, writerVars, rseg, hist,
                   rot_ids, reopens, budget, cfgVars, pieces,
                   supVars, lifeVars, ingVars, chanVars,
                   idxVars, op>>

\* read_segment_data returns Err (an I/O failure): the handler returns and
\* the guard is dropped on the way out
ReaderReadErr(r) ==
    /\ rpc[r] = "guarded"
    /\ counters' = release(counters, rseg[r].pool_idx)
    /\ rpc' = [rpc EXCEPT ![r] = "idle"]
    /\ rseg' = [rseg EXCEPT ![r] = NoLoc]
    /\ rdata' = [rdata EXCEPT ![r] = <<>>]
    /\ UNCHANGED <<poolVars, index, scanned, writerVars, hist,
                   rot_ids, reopens, budget, cfgVars,
                   pieces, supVars, lifeVars, ingVars, chanVars, idxVars, op>>

\* the handler returns its response: the guard is dropped, release(pool_idx)
\* does fetch_sub(1), and the handler's locals are gone
ReaderRelease(r) ==
    /\ rpc[r] = "read"
    /\ counters' = release(counters, rseg[r].pool_idx)
    /\ rpc' = [rpc EXCEPT ![r] = "idle"]
    /\ rseg' = [rseg EXCEPT ![r] = NoLoc]
    /\ rdata' = [rdata EXCEPT ![r] = <<>>]
    /\ UNCHANGED <<poolVars, index, scanned, writerVars, hist,
                   rot_ids, reopens, budget, cfgVars, pieces,
                   supVars, lifeVars, ingVars, chanVars,
                   idxVars, op>>

NextRot ==
    \/ \E req \in RotRequests : WriterRecv(req)
    \/ WriterAppendErr
    \/ AppendBegin
    \/ RotateSleep
    \/ RotateLoopExit
    \/ RotateCheck
    \/ RotateWrite
    \/ WriteRecord
    \/ WriterInsert
    \/ \E r \in Readers : ReaderLookup(r)
    \/ \E r \in Readers : ReaderAcquire(r)
    \/ \E r \in Readers : ReaderRead(r)
    \/ \E r \in Readers : ReaderReadErr(r)
    \/ \E r \in Readers : ReaderRelease(r)

InitRot == Started /\ budget = MaxRotAppends

SpecRot == InitRot /\ [][NextRot]_vars

\* ------------------------------------------------------------------------
\* Camera workers, the bounded request channel and the writer loop
\* ------------------------------------------------------------------------
\* number of Senders alive: the manager's and one clone per running worker
senders(m, pc) ==
    (IF m THEN 1 ELSE 0) + Cardinality({c \in Cameras : pc[c] # "exited"})

\* a channel that lets one more message in than its bound
channel_full_above_bound(q, cap) == Len(q) > cap

\* Sender::send waits while the channel holds channel_bound messages
channel_full(q, cap) == Len(q) >= cap

\* a receiver that hands out the newest message
channel_pop_newest(q) ==
    [msg |-> q[Len(q)], rest |-> SubSeq(q, 1, Len(q) - 1)]

\* Receiver::recv on a non-empty channel: the oldest message
channel_pop(q) == [msg |-> Head(q), rest |-> Tail(q)]

\* a receiver that reports the end as soon as the Senders are gone
channel_closed_undrained(q, n) == n = 0

\* Receiver::recv returns None: all Senders dropped and nothing buffered
channel_closed(q, n) == q = <<>> /\ n = 0

\* the request a worker in flush_segment is submitting
PendingRequest(c) == CamRequest(c, isent[c])

\* run() lines 76-108, flush_segment lines 125-137: the segment is due and
\* the buffer is taken into a WriteRequest
FlushSegment(c) ==
    /\ ipc[c] = "collect"
    /\ isent[c] < MaxSegments
    /\ ipc' = [ipc EXCEPT ![c] = "send"]
    /\ UNCHANGED <<poolVars, counters, index, scanned, writerVars, readerVars,
                   hist, rot_ids, reopens, budget, cfgVars,
                   pieces,
                   supVars, lifeVars, ingVars, queue, isent, mgr_tx, sent,
                   qclose, idxVars, op>>

\* flush_segment line 139: writer_tx.send(req).await gets a place
Send(c) ==
    /\ ipc[c] = "send"
    /\ ~channel_full(queue, WriterQueueSize)
    /\ queue' = Append(queue, PendingRequest(c))
    /\ sent' = Append(sent, PendingRequest(c))
    /\ isent' = [isent EXCEPT ![c] = @ + 1]
    /\ ipc' = [ipc EXCEPT ![c] = "collect"]
    /\ UNCHANGED <<poolVars, counters, index, scanned, writerVars, readerVars,
                   hist, rot_ids, reopens, budget, cfgVars,
                   pieces,
                   supVars, lifeVars, ingVars, mgr_tx, qclose, idxVars, op>>

\* the worker task ends at one of its suspension points (handle.abort(), or
\* the stream supervisor is gone): its Sender is dropped, and a request it
\* was waiting to send is dropped with it
WorkerExit(c) ==
    /\ ipc[c] # "exited"
    /\ ipc' = [ipc EXCEPT ![c] = "exited"]
    /\ qclose' = IF senders(mgr_tx, ipc') = 0 THEN Len(queue) ELSE qclose
    /\ UNCHANGED <<poolVars, counters, index, scanned, writerVars, readerVars,
                   hist, rot_ids, reopens, budget, cfgVars,
                   pieces,
                   supVars, lifeVars, ingVars, queue, isent, mgr_tx, sent,
                   idxVars, op>>

\* the Sender returned by spawn_writer is dropped
DropWriterTx ==
    /\ mgr_tx
    /\ mgr_tx' = FALSE
    /\ qclose' = IF senders(FALSE, ipc) = 0 THEN Len(queue) ELSE qclose
    /\ UNCHANGED <<poolVars, counters, index, scanned, writerVars, readerVars,
                   hist, rot_ids, reopens, budget, cfgVars,
                   pieces, supVars, lifeVars, ingVars, queue, ipc, isent, sent,
                   idxVars, op>>

\* writer_loop line 92: rx.recv() yields the next buffered request
ChannelRecv ==
    /\ queue # <<>>
    /\ Recv(channel_pop(queue).msg)
    /\ queue' = channel_pop(queue).rest
    /\ UNCHANGED <<ipc, isent, mgr_tx, sent, qclose>>

\* writer_loop lines 92 and 128: rx.recv() yields None, the task ends
ChannelClosed ==
    /\ wpc = "recv"
    /\ channel_closed(queue, senders(mgr_tx, ipc))
    /\ wpc' = "done"
    /\ op' = "shutdown"
    /\ UNCHANGED <<poolVars, counters, index, scanned, wreq, wloc, waited,
                   stalled, readerVars, hist, rot_ids, reopens, budget, cfgVars,
                   pieces, supVars, lifeVars, ingVars,
                   chanVars, idxVars>>

WriterStep ==
    \/ ChannelRecv
    \/ ChannelClosed
    \/ WriterAppendErr
    \/ WriterAppend
    \/ WriterInsert

NextChan ==
    \/ \E c \in Cameras : FlushSegment(c)
    \/ \E c \in Cameras : Send(c)
    \/ \E c \in Cameras : WorkerExit(c)
    \/ DropWriterTx
    \/ ChannelRecv
    \/ ChannelClosed
    \/ WriterAppendErr
    \/ WriterAppend
    \/ WriterInsert

InitChan == Started /\ budget = MaxSegments * Cardinality(Cameras)

SpecChan == InitChan /\ [][NextChan]_vars

\* the writer is a spawned task that the runtime keeps polling, and every
\* step after recv() is synchronous code
SpecChanFair == SpecChan /\ WF_vars(WriterStep)

\* ------------------------------------------------------------------------
\* The segment index on its own: inserts, evictions and queries with
\* arbitrary arguments
\* ------------------------------------------------------------------------
\* the location an insert is given: a record in slot p of a ring that has
\* wrapped once
IdxLocation(p, n) ==
    [pool_idx |-> p, pool_id |-> p + MaxPools,
     record_offset |-> POOL_HEADER_SIZE + n * (RECORD_HEADER_SIZE + 10),
     record_size |-> RECORD_HEADER_SIZE + 10]

IdxInsert(t) ==
    /\ index.segment_counter < MaxIdxInserts
    /\ LET loc == IdxLocation(t[4], index.segment_counter)
       IN  /\ index' = insert(index, t[1], t[2], t[3], loc)
           /\ ix_log' = Append(ix_log,
                    [segment_id |-> index.segment_counter, camera_id |-> t[1],
                     start_ts |-> t[2], end_ts |-> t[3], location |-> loc,
                     live |-> TRUE])
    /\ qarg' = [fn |-> "insert", returned |-> insert_id(index)]
    /\ qres' = <<>>
    /\ UNCHANGED <<poolVars, counters, scanned, writerVars, readerVars, hist,
                   rot_ids, reopens, budget, cfgVars, pieces,
                   supVars, lifeVars, ingVars, chanVars, op>>

IdxEvictPool(p) ==
    /\ index' = evict_pool(index, p)
    /\ ix_log' = [i \in DOMAIN ix_log |->
                     IF ix_log[i].location.pool_idx = p
                     THEN [ix_log[i] EXCEPT !.live = FALSE] ELSE ix_log[i]]
    /\ qarg' = [fn |-> "evict_pool", pool_idx |-> p]
    /\ qres' = <<>>
    /\ UNCHANGED <<poolVars, counters, scanned, writerVars, readerVars, hist,
                   rot_ids, reopens, budget, cfgVars, pieces,
                   supVars, lifeVars, ingVars, chanVars, op>>

IdxSegmentsForCamera(c) ==
    /\ qres' = segments_for_camera(index, c)
    /\ qarg' = [fn |-> "segments_for_camera", camera_id |-> c]
    /\ UNCHANGED <<poolVars, counters, index, scanned, writerVars, readerVars,
                   hist, rot_ids, reopens, budget, cfgVars,
                   pieces, supVars, lifeVars, ingVars, chanVars, ix_log, op>>

IdxSegmentsInRange(c, rg) ==
    /\ qres' = segments_in_range(index, c, rg[1], rg[2])
    /\ qarg' = [fn |-> "segments_in_range", camera_id |-> c,
                from |-> rg[1], to |-> rg[2]]
    /\ UNCHANGED <<poolVars, counters, index, scanned, writerVars, readerVars,
                   hist, rot_ids, reopens, budget, cfgVars,
                   pieces, supVars, lifeVars, ingVars, chanVars, ix_log, op>>

IdxAllSegments ==
    /\ qres' = all_segments(index)
    /\ qarg' = [fn |-> "all_segments"]
    /\ UNCHANGED <<poolVars, counters, index, scanned, writerVars, readerVars,
                   hist, rot_ids, reopens, budget, cfgVars,
                   pieces, supVars, lifeVars, ingVars, chanVars, ix_log, op>>

NextIdx ==
    \/ IdxAllSegments
    \/ \E t \in IdxInputs : IdxInsert(t)
    \/ \E p \in Slots : IdxEvictPool(p)
    \/ \E c \in Cameras : IdxSegmentsForCamera(c)
    \/ \E c \in Cameras, rg \in IdxRanges : IdxSegmentsInRange(c, rg)

InitIdx == Started /\ budget = 0

SpecIdx == InitIdx /\ [][NextIdx]_vars

\* the ScannedRecord a start-up scan hands to the rebuild for input t, the
\* n-th (0-based) record of its slot
IdxScannedRecord(t, n) ==
    [camera_id |-> t[1], start_ts |-> t[2], end_ts |-> t[3],
     pool_idx |-> t[4], pool_id |-> t[4] + MaxPools,
     record_offset |-> POOL_HEADER_SIZE + n * (RECORD_HEADER_SIZE + 10),
     record_size |-> RECORD_HEADER_SIZE + 10]

\* the record lists given to rebuild_from_scanned: none, one or two records
RebuildInputs ==
    {<<>>}
    \cup {<<IdxScannedRecord(t, 0)>> : t \in IdxInputs}
    \cup {<<IdxScannedRecord(t, 0), IdxScannedRecord(u, 1)>> :
              t \in IdxInputs, u \in IdxInputs}

\* the log of the entries a rebuild has inserted
RECURSIVE LogOfRebuild(_, _)
LogOfRebuild(records, n) ==
    IF records = <<>> THEN <<>>
    ELSE LET r == Head(records)
         IN  <<[segment_id |-> n, camera_id |-> r.camera_id,
                start_ts |-> r.start_ts, end_ts |-> r.end_ts,
                location |-> [pool_idx |-> r.pool_idx, pool_id |-> r.pool_id,
                              record_offset |-> r.record_offset,
                              record_size |-> r.record_size],
                live |-> TRUE]>>
             \o LogOfRebuild(Tail(records), n + 1)

\* writer_loop line 80 at the start of a process: index.write()
\* .rebuild_from_scanned(records), on whatever the index holds
IdxRebuild(records) ==
    /\ reopens < MaxReopens
    /\ reopens' = reopens + 1
    /\ index' = rebuild_from_scanned(records)
    /\ ix_log' = LogOfRebuild(records, insert_id(EmptyIndex))
    /\ qarg' = [fn |-> "rebuild_from_scanned", records |-> records]
    /\ qres' = <<>>
    /\ UNCHANGED <<poolVars, counters, scanned, writerVars, readerVars, hist,
                   rot_ids, budget, cfgVars, pieces,
                   supVars, lifeVars, ingVars, chanVars, op>>

NextRebuild ==
    \/ \E t \in IdxInputs : IdxInsert(t)
    \/ \E p \in Slots : IdxEvictPool(p)
    \/ \E records \in RebuildInputs : IdxRebuild(records)

SpecRebuild == InitIdx /\ [][NextRebuild]_vars

\* ------------------------------------------------------------------------
\* Start-up: run_record loads the configuration and builds the manager
\* ------------------------------------------------------------------------
\* Config::from_file: parse, then validate; run_record exits on Err
FromFile ==
    /\ boot = "load"
    /\ boot' = IF validate(cfg) = "ok" THEN "validated" ELSE "exit"
    /\ op' = "from_file"
    /\ UNCHANGED <<poolVars, counters, index, scanned, writerVars,
                   readerVars, hist, rot_ids, reopens, budget, cfg, started, pieces,
                   supVars, lifeVars, ingVars, chanVars, idxVars>>

\* RecordingManager::new on the validated configuration: ChunkPool::open
\* pre-allocates the pool files, then spawn_writer creates the channel
\* (mpsc::channel panics on a capacity of 0) and the writer task, then one
\* CameraWorker is spawned per camera
ManagerNew ==
    /\ boot = "validated"
    /\ IF cfg.writer_queue_size = 0
       THEN /\ started' = [started EXCEPT !.pool = TRUE]
            /\ boot' = "panicked"
       ELSE /\ started' = [pool |-> TRUE, writer |-> TRUE,
                           workers |-> cfg.cameras]
            /\ boot' = "running"
    /\ op' = "manager_new"
    /\ UNCHANGED <<poolVars, counters, index, scanned, writerVars,
                   readerVars, hist, rot_ids, reopens, budget, cfg, pieces,
                   supVars, lifeVars, ingVars, chanVars, idxVars>>

NextCfg ==
    \/ FromFile
    \/ ManagerNew

InitCfg ==
    /\ PoolStarted
    /\ budget = 0
    /\ cfg \in Configs
    /\ boot = "load"
    /\ started = NothingStarted
    /\ pieces = [i \in Slots |-> <<>>]
    /\ SupStarted
    /\ LifeStarted
    /\ IngStarted
    /\ sup_n = 0

SpecCfg == InitCfg /\ [][NextCfg]_vars

\* ------------------------------------------------------------------------
\* Start-up on pool files found on disk: ChunkPool::open and the scan
\* ------------------------------------------------------------------------
\* the file of slot s holds one more piece behind those it already has
PutPiece(s, p) ==
    /\ reopens = 0
    /\ Cardinality({<<i, k>> \in Slots \X (1..MaxPieces) :
                        k <= Len(pieces[i])}) < MaxPieces
    /\ PiecesLen(pieces[s]) + Len(PieceBytes(p)) <= PoolCapacity
    /\ disk' = [disk EXCEPT ![s].body =
                    FileWrite(@, POOL_HEADER_SIZE + PiecesLen(pieces[s]),
                              PieceBytes(p))]
    /\ pieces' = [pieces EXCEPT ![s] = Append(@, p)]
    /\ op' = "put_piece"
    /\ UNCHANGED <<slots, write_idx, counters, index, scanned, writerVars,
                   readerVars, hist, rot_ids, reopens, budget, cfgVars,
                   supVars, lifeVars, ingVars, chanVars, idxVars>>

\* the pool header of slot s is damaged: its magic no longer reads NVRPOOL0
CorruptHeader(s) ==
    /\ reopens = 0
    /\ disk[s].magic
    /\ disk' = [disk EXCEPT ![s].magic = FALSE]
    /\ op' = "corrupt_header"
    /\ UNCHANGED <<slots, write_idx, counters, index, scanned, writerVars,
                   readerVars, hist, rot_ids, reopens, budget, cfgVars,
                   pieces, supVars, lifeVars, ingVars, chanVars, idxVars>>

NextScan ==
    \/ \E s \in Slots, p \in Pieces : PutPiece(s, p)
    \/ \E s \in Slots : CorruptHeader(s)
    \/ Reopen

InitScan == Started /\ budget = 0

SpecScan == InitScan /\ [][NextScan]_vars

\* ------------------------------------------------------------------------
\* The stream supervisor of one camera and the receiver of its streams
\* ------------------------------------------------------------------------
storeVars == <<poolVars, counters, index, scanned, writerVars, readerVars,
               hist, rot_ids, reopens, budget, cfgVars, pieces, chanVars,
               idxVars, lifeVars, ingVars>>

\* supervised_connect lines 122-126
max_attempts(n) == IF n = 0 THEN U32_MAX ELSE n

\* lines 130-133: the limit is reached, the task ends
SupGiveUp ==
    /\ sup_pc = "check"
    /\ attempt >= max_attempts(sup_n)
    /\ sup_pc' = "gave_up"
    /\ op' = "give_up"
    /\ UNCHANGED <<storeVars, attempt, sup_n, stream_q, stream_rx, fails>>

\* lines 135-137: CameraStream::connect returns Ok
SupConnectOk ==
    /\ sup_pc = "check"
    /\ attempt < max_attempts(sup_n)
    /\ attempt' = 0
    /\ fails' = 0
    /\ sup_pc' = "send"
    /\ op' = "connect_ok"
    /\ UNCHANGED <<storeVars, sup_n, stream_q, stream_rx>>

\* lines 146-157: connect returns Err; attempt += 1 on a u32, then the
\* back-off sleep
SupConnectErr ==
    /\ sup_pc = "check"
    /\ attempt < max_attempts(sup_n)
    /\ attempt' = (attempt + 1) % (U32_MAX + 1)
    /\ fails' = fails + 1
    /\ sup_pc' = "check"
    /\ op' = "connect_err"
    /\ UNCHANGED <<storeVars, sup_n, stream_q, stream_rx>>

\* lines 138-144: stream_tx.send(stream).await returns Ok once the channel
\* has room, then the 500 ms sleep
SupSendOk ==
    /\ sup_pc = "send"
    /\ stream_rx
    /\ stream_q < STREAM_CHANNEL_BOUND
    /\ stream_q' = stream_q + 1
    /\ sup_pc' = "check"
    /\ op' = "send_ok"
    /\ UNCHANGED <<storeVars, attempt, sup_n, stream_rx, fails>>

\* lines 138-141: send returns Err, the receiver is gone
SupSendErr ==
    /\ sup_pc = "send"
    /\ ~stream_rx
    /\ sup_pc' = "stopped"
    /\ op' = "send_err"
    /\ UNCHANGED <<storeVars, attempt, sup_n, stream_q, stream_rx, fails>>

\* CameraWorker::run line 55: stream_rx.recv() yields a stream
StreamRecv ==
    /\ stream_rx
    /\ stream_q > 0
    /\ stream_q' = stream_q - 1
    /\ op' = "stream_recv"
    /\ UNCHANGED <<storeVars, sup_pc, attempt, sup_n, stream_rx, fails>>

\* the worker task is aborted (remove_camera, shutdown): stream_rx is
\* dropped with whatever it buffers
StreamRxDrop ==
    /\ stream_rx
    /\ stream_rx' = FALSE
    /\ stream_q' = 0
    /\ op' = "stream_rx_drop"
    /\ UNCHANGED <<storeVars, sup_pc, attempt, sup_n, fails>>

NextSup ==
    \/ SupGiveUp
    \/ SupConnectOk
    \/ SupConnectErr
    \/ SupSendOk
    \/ SupSendErr
    \/ StreamRecv
    \/ StreamRxDrop

InitSup ==
    /\ StorageStarted
    /\ budget = 0
    /\ SupStarted
    /\ LifeStarted
    /\ IngStarted
    /\ sup_n \in 0..MaxReconnect

SpecSup == InitSup /\ [][NextSup]_vars

\* ------------------------------------------------------------------------
\* History helpers
\* ------------------------------------------------------------------------
Range(f) == {f[i] : i \in DOMAIN f}

LocKey(l) == <<l.pool_idx, l.record_offset, l.record_size>>

LiveIdx == {i \in DOMAIN hist : hist[i].live}

\* position in the append history of the live record stored at a location
LiveAt(pool_idx, record_offset) ==
    {i \in LiveIdx : /\ hist[i].loc.pool_idx = pool_idx
                     /\ hist[i].loc.record_offset = record_offset}

\* a sequence as a multiset: element -> number of occurrences
BagOfSeq(q) == [x \in Range(q) |-> Cardinality({i \in DOMAIN q : q[i] = x})]

\* the header fields of the record a request is stored as
RecordTuple(req) ==
    <<cam_bytes(req.camera_id), timestamp(req.start_ts), timestamp(req.end_ts),
      Len(req.data)>>

\* the same fields of an index entry
EntryTuple(e) ==
    <<cam_bytes(e.camera_id), timestamp(e.start_ts), timestamp(e.end_ts),
      e.location.record_size - RECORD_HEADER_SIZE>>

LiveTuplesOf(c) ==
    LET idx == {i \in LiveIdx : hist[i].req.camera_id = c}
        q == [k \in 1..Cardinality(idx) |->
                 RecordTuple(hist[CHOOSE i \in idx :
                     Cardinality({j \in idx : j < i}) = k - 1].req)]
    IN  BagOfSeq(q)

EntryTuplesOf(c) ==
    LET q == segments_for_camera(index, c)
    IN  BagOfSeq([k \in DOMAIN q |-> EntryTuple(q[k])])

\* ------------------------------------------------------------------------
\* The life of the writer task: spawn, startup scan and rebuild, the
\* receive loop, RecordingManager::shutdown, and a start on the same files
\* ------------------------------------------------------------------------
\* RecordingManager::new returned on an empty directory: the pool is open,
\* the index is SegmentIndex::new(), the workers run, and the writer task
\* is spawned but has not been polled yet
WriterSpawned ==
    /\ slots = FreshSlots
    /\ write_idx = 0
    /\ disk = write_pool_header([i \in Slots |-> FreshFile], FreshSlots, 0)
    /\ counters = [i \in Slots |-> 0]
    /\ scanned = <<>>
    /\ index = EmptyIndex
    /\ wpc = "init"
    /\ wreq = NoReq
    /\ wloc = NoLoc
    /\ waited = 0
    /\ stalled = FALSE
    /\ rpc = [r \in Readers |-> "idle"]
    /\ rseg = [r \in Readers |-> NoLoc]
    /\ rdata = [r \in Readers |-> <<>>]
    /\ hist = <<>>
    /\ rot_ids = <<>>
    /\ reopens = 0
    /\ queue = <<>>
    /\ ipc = [c \in Cameras |-> "collect"]
    /\ isent = [c \in Cameras |-> 0]
    /\ mgr_tx = TRUE
    /\ sent = <<>>
    /\ qclose = 0
    /\ qarg = NoQuery
    /\ qres = <<>>
    /\ ix_log = <<>>
    /\ op = "open"
    /\ cfg = RunningConfig
    /\ boot = "running"
    /\ started = [pool |-> TRUE, writer |-> TRUE, workers |-> Cameras]
    /\ pieces = [i \in Slots |-> <<>>]

\* writer_loop lines 77-78: scan_all_pools() returns Ok(records)
WriterScan ==
    /\ wpc = "init"
    /\ scanned' = scan_all_pools(disk, slots)
    /\ wpc' = "rebuild"
    /\ op' = "scan"
    /\ UNCHANGED <<poolVars, counters, index, wreq, wloc, waited, stalled,
                   readerVars, hist, rot_ids, reopens, budget, cfgVars,
                   pieces, supVars, lifeVars, ingVars, chanVars, idxVars>>

\* writer_loop lines 85-87: scan_all_pools() returns Err (a pool file could
\* not be read); the error is logged and the loop starts with the index as
\* SegmentIndex::new() left it. No record list exists: scanned stays empty
WriterScanErr ==
    /\ wpc = "init"
    /\ scanned' = <<>>
    /\ wpc' = "recv"
    /\ op' = "scan_err"
    /\ UNCHANGED <<poolVars, counters, index, wreq, wloc, waited, stalled,
                   readerVars, hist, rot_ids, reopens, budget, cfgVars,
                   pieces, supVars, lifeVars, ingVars, chanVars, idxVars>>

\* a writer that logs the recovered records but leaves the index empty
WriterRebuild_without_entries ==
    /\ wpc = "rebuild"
    /\ index' = EmptyIndex
    /\ wpc' = "recv"
    /\ op' = "rebuild"
    /\ UNCHANGED <<poolVars, counters, scanned, wreq, wloc, waited, stalled,
                   readerVars, hist, rot_ids, reopens, budget, cfgVars,
                   pieces, supVars, lifeVars, ingVars, chanVars, idxVars>>

\* writer_loop lines 79-84: index.write().rebuild_from_scanned(records)
WriterRebuild ==
    /\ wpc = "rebuild"
    /\ index' = rebuild_from_scanned(scanned)
    /\ wpc' = "recv"
    /\ op' = "rebuild"
    /\ UNCHANGED <<poolVars, counters, scanned, wreq, wloc, waited, stalled,
                   readerVars, hist, rot_ids, reopens, budget, cfgVars,
                   pieces, supVars, lifeVars, ingVars, chanVars, idxVars>>

\* RecordingManager::shutdown, lines 136-145: every worker handle is
\* aborted (the workers are parked at an await, so their Senders go),
\* writer_tx is dropped, and writer_handle.abort() is called
Shutdown ==
    /\ mgr_tx
    /\ ~w_abort
    /\ ipc' = [c \in Cameras |-> "exited"]
    /\ mgr_tx' = FALSE
    /\ qclose' = Len(queue)
    /\ w_abort' = TRUE
    /\ op' = "shutdown_call"
    /\ UNCHANGED <<poolVars, counters, index, scanned, writerVars, readerVars,
                   hist, rot_ids, reopens, budget, cfgVars, pieces, supVars,
                   ingVars, queue, isent, sent, idxVars>>

\* a runtime that drops the aborted task wherever it is, also between the
\* dequeue of a request and its append
WriterCancelled_mid_request ==
    /\ w_abort
    /\ wpc \in {"init", "recv", "append"}
    /\ wpc' = "aborted"
    /\ op' = "cancelled"
    /\ UNCHANGED <<poolVars, counters, index, scanned, wreq, wloc, waited,
                   stalled, readerVars, hist, rot_ids, reopens, budget,
                   cfgVars, pieces, supVars, lifeVars, ingVars, chanVars,
                   idxVars>>

\* the abort takes effect: an aborted task is dropped when it is not being
\* polled, that is before its first poll or parked at rx.recv().await
\* (line 92), the only await of writer_loop. The Receiver is dropped with
\* the task, and what the channel still holds stays where it is
WriterCancelled ==
    /\ w_abort
    /\ wpc \in {"init", "recv"}
    /\ wpc' = "aborted"
    /\ op' = "cancelled"
    /\ UNCHANGED <<poolVars, counters, index, scanned, wreq, wloc, waited,
                   stalled, readerVars, hist, rot_ids, reopens, budget,
                   cfgVars, pieces, supVars, lifeVars, ingVars, chanVars,
                   idxVars>>

\* the process is started again on the same directory after the writer has
\* stopped: ChunkPool::open, SegmentIndex::new(), a new channel, new
\* workers (each goes on with its camera's next segment) and a new writer
\* task
Restart ==
    /\ wpc \in {"done", "aborted"}
    /\ reopens < MaxReopens
    /\ slots' = [i \in Slots |-> open_slot(disk, i)]
    /\ write_idx' = open_write_idx(disk)
    /\ counters' = [i \in Slots |-> 0]
    /\ index' = EmptyIndex
    /\ scanned' = <<>>
    /\ wpc' = "init"
    /\ wreq' = NoReq
    /\ wloc' = NoLoc
    /\ waited' = 0
    /\ stalled' = FALSE
    /\ rpc' = [r \in Readers |-> "idle"]
    /\ rseg' = [r \in Readers |-> NoLoc]
    /\ rdata' = [r \in Readers |-> <<>>]
    /\ reopens' = reopens + 1
    /\ queue' = <<>>
    /\ sent' = <<>>
    /\ qclose' = 0
    /\ mgr_tx' = TRUE
    /\ ipc' = [c \in Cameras |-> "collect"]
    /\ w_abort' = FALSE
    /\ op' = "restart"
    /\ UNCHANGED <<disk, hist, rot_ids, budget, cfgVars, pieces, supVars,
                   ingVars, isent, idxVars>>

NextLife ==
    \/ WriterScan
    \/ WriterScanErr
    \/ WriterRebuild
    \/ \E c \in Cameras : FlushSegment(c)
    \/ \E c \in Cameras : Send(c)
    \/ Shutdown
    \/ ChannelRecv
    \/ ChannelClosed
    \/ WriterCancelled
    \/ WriterAppendErr
    \/ WriterAppend
    \/ WriterInsert
    \/ Restart

InitLife ==
    /\ WriterSpawned
    /\ SupStarted
    /\ LifeStarted
    /\ IngStarted
    /\ sup_n = 0
    /\ budget = MaxSegments * Cardinality(Cameras)

SpecLife == InitLife /\ [][NextLife]_vars

\* ------------------------------------------------------------------------
\* One ingestion worker: streams handed over by the supervisor, buffers
\* read from the stream, the segment deadline and flush_segment. The worker
\* is not aborted and the writer, which holds the Receiver of the request
\* channel for as long as a Sender exists, takes requests at its own pace
\* ------------------------------------------------------------------------
nonIngVars == <<poolVars, counters, index, scanned, writerVars, readerVars,
                hist, rot_ids, reopens, budget, cfgVars, pieces, supVars,
                lifeVars, idxVars, ipc, isent, mgr_tx, qclose, op>>

\* buffers a stream can deliver: an empty one, one byte, two bytes
Fragments == {<<>>, <<7>>, <<8, 9>>}

\* Duration::from_secs(segment_duration_secs), in ticks
segment_duration == cfg.segment_duration_secs * TicksPerSec

\* line 54: stream_rx.recv() yields a connected stream; lines 61-63
TakeStream ==
    /\ wk_pc = "wait_stream"
    /\ streams < MaxStreams
    /\ streams' = streams + 1
    /\ src_open' = TRUE
    /\ segment_buf' = <<>>
    /\ seg_start' = now
    /\ deadline' = now + segment_duration
    /\ wk_pc' = "select"
    /\ UNCHANGED <<now, received, wk_req, wk_site, queue, sent, nonIngVars>>

\* lines 54-57: stream_rx.recv() yields None, the supervisor has ended
SupervisorEnded ==
    /\ wk_pc = "wait_stream"
    /\ wk_pc' = "ended"
    /\ UNCHANGED <<segment_buf, seg_start, deadline, now, src_open, received,
                   wk_req, wk_site, streams, queue, sent, nonIngVars>>

\* flush_segment lines 125-139 at time t for the buffer buf, called from
\* the match arm site: nothing for an empty buffer, else the buffer is
\* taken into a WriteRequest and the worker waits in writer_tx.send
flush_segment(buf, t, site) ==
    IF buf = <<>>
    THEN /\ segment_buf' = buf
         /\ wk_pc' = "select"
         /\ UNCHANGED <<wk_req, wk_site>>
    ELSE /\ wk_req' = [camera_id |-> Cam0, start_ts |-> seg_start,
                       end_ts |-> t, data |-> buf]
         /\ segment_buf' = <<>>
         /\ wk_site' = site
         /\ wk_pc' = "send"

\* a worker that keeps only the newest buffer of the segment
ReadBuffer_replacing(vb, dt) ==
    /\ wk_pc = "select"
    /\ now < deadline
    /\ src_open
    /\ Len(received) < MaxFrags
    /\ now + dt <= MaxClock
    /\ received' = Append(received, vb)
    /\ now' = now + dt
    /\ IF now' >= deadline
       THEN flush_segment(vb, now', "some")
       ELSE /\ segment_buf' = vb
            /\ UNCHANGED <<wk_pc, wk_req, wk_site>>
    /\ UNCHANGED <<seg_start, deadline, src_open, streams, queue, sent,
                   nonIngVars>>

\* lines 66-87: the deadline has not passed and read_buffer() yields
\* Some(vb); the buffer is extended, and flushed if the deadline has passed
\* by the time Instant::now() is read (dt ticks later)
ReadBuffer(vb, dt) ==
    /\ wk_pc = "select"
    /\ now < deadline
    /\ src_open
    /\ Len(received) < MaxFrags
    /\ now + dt <= MaxClock
    /\ received' = Append(received, vb)
    /\ now' = now + dt
    /\ IF now' >= deadline
       THEN flush_segment(segment_buf \o vb, now', "some")
       ELSE /\ segment_buf' = segment_buf \o vb
            /\ UNCHANGED <<wk_pc, wk_req, wk_site>>
    /\ UNCHANGED <<seg_start, deadline, src_open, streams, queue, sent,
                   nonIngVars>>

\* lines 89-108, the None arm: a non-empty buffer is flushed, with an empty
\* one the stream is dropped and the worker waits for the next stream
none_arm ==
    IF segment_buf # <<>>
    THEN /\ flush_segment(segment_buf, now, "none")
         /\ UNCHANGED <<src_open>>
    ELSE /\ wk_pc' = "wait_stream"
         /\ src_open' = FALSE
         /\ UNCHANGED <<segment_buf, wk_req, wk_site>>

\* lines 66-71: select! is biased, the elapsed deadline wins and yields None
DeadlineFires ==
    /\ wk_pc = "select"
    /\ now >= deadline
    /\ none_arm
    /\ UNCHANGED <<seg_start, deadline, now, received, streams, queue, sent,
                   nonIngVars>>

\* line 73: read_buffer() yields None, the pipeline has ended
StreamEnded ==
    /\ wk_pc = "select"
    /\ now < deadline
    /\ ~src_open
    /\ none_arm
    /\ UNCHANGED <<seg_start, deadline, now, received, streams, queue, sent,
                   nonIngVars>>

\* the camera or the network ends the stream
SourceCloses ==
    /\ wk_pc \in {"select", "send"}
    /\ src_open
    /\ src_open' = FALSE
    /\ UNCHANGED <<wk_pc, segment_buf, seg_start, deadline, now, received,
                   wk_req, wk_site, streams, queue, sent, nonIngVars>>

\* a flush that leaves the start of the next segment where it was
FlushSent_keeping_start ==
    /\ wk_pc = "send"
    /\ ~channel_full(queue, WriterQueueSize)
    /\ queue' = Append(queue, wk_req)
    /\ sent' = Append(sent, wk_req)
    /\ deadline' = now + segment_duration
    /\ wk_req' = NoReq
    /\ wk_pc' = "select"
    /\ UNCHANGED <<seg_start, segment_buf, now, src_open, received, wk_site,
                   streams, nonIngVars>>

\* flush_segment lines 139-155 (and line 107 after the None arm): the
\* channel has room, send returns Ok, the next segment starts now
FlushSent ==
    /\ wk_pc = "send"
    /\ ~channel_full(queue, WriterQueueSize)
    /\ queue' = Append(queue, wk_req)
    /\ sent' = Append(sent, wk_req)
    /\ seg_start' = now
    /\ deadline' = now + segment_duration
    /\ wk_req' = NoReq
    /\ wk_pc' = "select"
    /\ UNCHANGED <<segment_buf, now, src_open, received, wk_site, streams,
                   nonIngVars>>

\* time passes
Tick ==
    /\ now < MaxClock
    /\ now' = now + 1
    /\ UNCHANGED <<wk_pc, segment_buf, seg_start, deadline, src_open,
                   received, wk_req, wk_site, streams, queue, sent,
                   nonIngVars>>

\* writer_loop line 92: the writer takes the oldest request
WriterTakes ==
    /\ queue # <<>>
    /\ queue' = channel_pop(queue).rest
    /\ UNCHANGED <<ingVars, sent, nonIngVars>>

NextIng ==
    \/ TakeStream
    \/ SupervisorEnded
    \/ \E vb \in Fragments, dt \in {0, 1} : ReadBuffer(vb, dt)
    \/ DeadlineFires
    \/ StreamEnded
    \/ SourceCloses
    \/ FlushSent
    \/ Tick
    \/ WriterTakes

InitIng == Started /\ budget = 0

SpecIng == InitIng /\ [][NextIng]_vars

\* ------------------------------------------------------------------------
\* Claims
\* ------------------------------------------------------------------------

\* C1: while a guard on slot s is held, rotate() does not rewrite the header
\* of s, and the append it serves does not overwrite the body of s, unless
\* the 50 polls of the RotateStall deadline have all been slept.
C1_GuardedSlotNotRewritten ==
    [][\A s \in Slots :
          ( /\ counters[s] > 0
            /\ disk'[s] # disk[s]
            /\ (wpc = "rotate_write" \/ (wpc = "write" /\ op = "rotate")) )
          => waited = ROTATE_MAX_POLLS]_vars

\* C2: in every state of the writer, also between its evict, append and
\* insert steps, every index entry carries the pool_id its slot has now,
\* in memory and in the pool header on disk.
C2_IndexPoolIdCurrent ==
    \A e \in index.entries :
        /\ slots[e.location.pool_idx].pool_id = e.location.pool_id
        /\ read_pool_header(disk[e.location.pool_idx]) = e.location.pool_id

\* C2 witness: the writer stands between append and insert after a rotation
\* and the index still holds entries of a slot that was rotated into earlier.
C2_Witness ==
    /\ wpc = "insert"
    /\ op = "append_rotate"
    /\ \E e \in index.entries : e.location.pool_id >= MaxPools

\* C3: after re-open, scan_all_pools returns exactly the records that were
\* live at close: none missing, and none that a rotation invalidated.
C3_ScanExactlyLive ==
    op = "reopen" =>
        {<<r.pool_idx, r.record_offset, r.record_size>> : r \in Range(scanned)}
            = {LocKey(hist[i].loc) : i \in LiveIdx}

\* C4: the scan result is in temporal write order: of two live records it
\* returns, the one appended first comes first.
C4_ScanTemporalOrder ==
    op = "reopen" =>
        \A i, j \in DOMAIN scanned :
            i < j =>
                \A a \in LiveAt(scanned[i].pool_idx, scanned[i].record_offset),
                   b \in LiveAt(scanned[j].pool_idx, scanned[j].record_offset) :
                    a < b

\* C5: from a fresh open, the pool_ids assigned by successive rotations are
\* strictly increasing.
C5_RotationIdsIncrease ==
    reopens = 0 =>
        \A i, j \in DOMAIN rot_ids : i < j => rot_ids[i] < rot_ids[j]

\* C6: a slot's pool_id changes only when a rotation targets that slot, and
\* then it grows by exactly max_pools.
C6_PoolIdStep ==
    [][op' # "reopen" =>
        \A s \in Slots :
            IF op' = "append_rotate" /\ s = write_idx'
            THEN slots'[s].pool_id = slots[s].pool_id + MaxPools
            ELSE slots'[s].pool_id = slots[s].pool_id]_vars

\* C6 witness: the ring has wrapped, slot 0 went from 0 to max_pools.
C6_Witness ==
    /\ op = "append_rotate"
    /\ reopens = 0
    /\ write_idx = 0
    /\ slots[0].pool_id = MaxPools

\* C7: after re-open, write_idx is the slot that received the last append.
C7_ResumeAtLastWritten ==
    (op = "reopen" /\ hist # <<>>) =>
        write_idx = hist[Len(hist)].loc.pool_idx

\* C8: on open over existing files the resume slot has the maximal adopted
\* pool_id, and among several such slots it is the one of smallest index.
C8_ResumeSmallestOfMax ==
    op = "reopen" =>
        /\ \A s \in Slots : slots[s].pool_id <= slots[write_idx].pool_id
        /\ \A s \in Slots :
              slots[s].pool_id = slots[write_idx].pool_id => write_idx <= s

\* C9 as stated: read_segment_data on the location returned by every append
\* yields the payload that was appended.
C9_EveryLocationReadsBack ==
    \A i \in DOMAIN hist :
        read_segment_data(disk, hist[i].loc) = hist[i].req.data

\* C9 amended: read_segment_data on the location returned by an append
\* yields the appended payload for as long as the record's slot has not been
\* rotated into again.
C9_LiveLocationReadsBack ==
    \A i \in LiveIdx :
        read_segment_data(disk, hist[i].loc) = hist[i].req.data

\* C9 witness: a rotation has happened, live records sit behind one another
\* in a slot and in more than one slot.
C9_Witness ==
    /\ \E i \in DOMAIN hist : ~hist[i].live
    /\ \E i, j \in LiveIdx :
          /\ hist[i].loc.pool_idx = hist[j].loc.pool_idx
          /\ hist[i].loc.record_offset < hist[j].loc.record_offset
    /\ \E i, j \in LiveIdx : hist[i].loc.pool_idx # hist[j].loc.pool_idx

\* C10: after re-open and rebuild, segments_for_camera(c) holds, with the
\* same multiplicity, exactly the (camera_id, start_ts, end_ts, data_len)
\* of the records appended for c and still live.  The fields are compared
\* as the record stores them: whole seconds, 16-byte camera field.
C10_RebuildMatchesLive ==
    op = "reopen" =>
        \A c \in Cameras : EntryTuplesOf(c) = LiveTuplesOf(c)

\* C11: an append whose record (40 header bytes plus the payload) is larger
\* than pool_capacity returns an error and leaves write_idx, every slot's
\* pool_id and bytes_used and the pool files as they were, with no rotation;
\* no record larger than pool_capacity is ever written.
C11_OversizedAppendRejected ==
    [][ /\ ( /\ wpc = "append"
             /\ RECORD_HEADER_SIZE + Len(wreq.data) > PoolCapacity
             /\ op' # "reopen" )
           => /\ op' = "append_err"
              /\ poolVars' = poolVars
              /\ rot_ids' = rot_ids
              /\ hist' = hist
        /\ \A i \in DOMAIN hist' : hist'[i].loc.record_size <= PoolCapacity
      ]_vars

\* C11 witness: the oversized request was refused while the current slot
\* already held records.
C11_Witness ==
    /\ op = "append_err"
    /\ slots[write_idx].bytes_used > 0
    /\ hist # <<>>

\* the entry a log record stands for
LogEntry(l) ==
    [segment_id |-> l.segment_id, camera_id |-> l.camera_id,
     start_ts |-> l.start_ts, end_ts |-> l.end_ts, location |-> l.location]

\* C12: evict_pool(pool_idx) removes exactly the entries located in slot
\* pool_idx: none of them remains, every entry of another slot is still
\* present and unchanged, and nothing else appears.
C12_EvictRemovesExactlySlot ==
    [][qarg'.fn = "evict_pool" =>
        /\ \A e \in index'.entries : e.location.pool_idx # qarg'.pool_idx
        /\ \A e \in index.entries :
              e.location.pool_idx # qarg'.pool_idx => e \in index'.entries
        /\ index'.entries \subseteq index.entries
        /\ index'.segment_counter = index.segment_counter]_vars

\* C12 witness: an eviction removed entries and left entries of the other
\* slot in place.
C12_Witness ==
    /\ qarg.fn = "evict_pool"
    /\ \E i \in DOMAIN ix_log : ~ix_log[i].live
    /\ index.entries # {}

\* C13: segments_in_range(camera_id, from, to) returns, once each, exactly
\* the entries of that camera with start_ts < to and end_ts > from; a segment
\* ending at from or starting at to is excluded, and of three adjacent
\* segments the query over the middle span returns the middle one only.
C13_RangeIsHalfOpenOverlap ==
    qarg.fn = "segments_in_range" =>
        /\ Range(qres) =
              {e \in index.entries : /\ e.camera_id = qarg.camera_id
                                     /\ e.start_ts < qarg.to
                                     /\ e.end_ts > qarg.from}
        /\ Cardinality(Range(qres)) = Len(qres)
        /\ \A e \in Range(qres) :
              e.end_ts # qarg.from /\ e.start_ts # qarg.to
        /\ \A a, b, c \in index.entries :
              ( /\ a.camera_id = qarg.camera_id
                /\ b.camera_id = qarg.camera_id
                /\ c.camera_id = qarg.camera_id
                /\ a.end_ts = b.start_ts /\ b.end_ts = c.start_ts
                /\ a.start_ts < a.end_ts /\ c.start_ts < c.end_ts
                /\ qarg.from = b.start_ts /\ qarg.to = b.end_ts
                /\ qarg.from < qarg.to )
              => /\ b \in Range(qres)
                 /\ a \notin Range(qres)
                 /\ c \notin Range(qres)

\* C13 witness: cam0 holds the adjacent segments [2,4) [4,6) [6,8), and the
\* query (4,6) returned one entry.
C13_Witness ==
    /\ qarg.fn = "segments_in_range"
    /\ qarg.camera_id = Cam0 /\ qarg.from = 4 /\ qarg.to = 6
    /\ \A sp \in {<<2, 4>>, <<4, 6>>, <<6, 8>>} :
          \E e \in index.entries :
              e.camera_id = Cam0 /\ e.start_ts = sp[1] /\ e.end_ts = sp[2]
    /\ Len(qres) = 1

\* C14: after any inserts and evictions, segments_for_camera(c) returns,
\* once each, every inserted and not evicted entry of c and no entry of
\* another camera, in ascending (start_ts, segment_id); when the entries of c
\* were inserted with non-decreasing start_ts, that is the order in which
\* they were inserted.
C14_ForCameraLiveAndOrdered ==
    qarg.fn = "segments_for_camera" =>
        LET mine == {i \in DOMAIN ix_log : ix_log[i].camera_id = qarg.camera_id}
            live == {i \in mine : ix_log[i].live}
            pos(e) == CHOOSE i \in DOMAIN ix_log :
                          ix_log[i].segment_id = e.segment_id
        IN  /\ Range(qres) = {LogEntry(ix_log[i]) : i \in live}
            /\ Len(qres) = Cardinality(live)
            /\ \A i, j \in DOMAIN qres :
                  i < j =>
                     \/ qres[i].start_ts < qres[j].start_ts
                     \/ /\ qres[i].start_ts = qres[j].start_ts
                        /\ qres[i].segment_id < qres[j].segment_id
            /\ (\A i, j \in mine :
                    i < j => ix_log[i].start_ts <= ix_log[j].start_ts)
               => \A i, j \in DOMAIN qres :
                     i < j => pos(qres[i]) < pos(qres[j])

\* C14 witness: a camera's entries were inserted out of start_ts order, one
\* of them was evicted, and the query returned the two that are left.
C14_Witness ==
    /\ qarg.fn = "segments_for_camera"
    /\ Len(qres) = 2
    /\ qres[1].segment_id > qres[2].segment_id
    /\ \E i \in DOMAIN ix_log :
          ix_log[i].camera_id = qarg.camera_id /\ ~ix_log[i].live

\* the requests of a sequence that fit in a pool
Fitting(q) ==
    SelectSeq(q, LAMBDA r : RECORD_HEADER_SIZE + Len(r.data) <= PoolCapacity)

\* the requests of a sequence that belong to camera c
OfCamera(q, c) == SelectSeq(q, LAMBDA r : r.camera_id = c)

\* the requests appended so far, in append order
Appended == [i \in DOMAIN hist |-> hist[i].req]

NoSenders == senders(mgr_tx, ipc) = 0

PosInSent(camera_id, start_ts) ==
    CHOOSE i \in DOMAIN sent :
        sent[i].camera_id = camera_id /\ sent[i].start_ts = start_ts

\* q is an initial part of r
IsPrefix(q, r) == Len(q) <= Len(r) /\ q = SubSeq(r, 1, Len(q))

\* C16: for every interleaving of the camera workers, the requests of one
\* camera are appended in the order that camera submitted them, and of two
\* indexed segments of one camera the one submitted earlier has the strictly
\* smaller segment_id.
C16_PerCameraOrder ==
    \A c \in Cameras :
        /\ IsPrefix(OfCamera(Appended, c), OfCamera(Fitting(sent), c))
        /\ \A k \in DOMAIN OfCamera(sent, c) :
              OfCamera(sent, c)[k] = CamRequest(c, k - 1)
        /\ \A a, b \in index.entries :
              ( /\ a.camera_id = c
                /\ b.camera_id = c
                /\ PosInSent(c, a.start_ts) < PosInSent(c, b.start_ts) )
              => a.segment_id < b.segment_id

\* C16 witness: the channel accepted cam0, cam1, cam0 or cam1, cam0, cam1 in
\* turn, three records are appended, and the index holds two segments of one
\* camera.
C16_Witness ==
    /\ Len(hist) >= 3
    /\ \E i \in DOMAIN sent :
          /\ i + 2 <= Len(sent)
          /\ sent[i].camera_id # sent[i + 1].camera_id
          /\ sent[i].camera_id = sent[i + 2].camera_id
    /\ \E a, b \in index.entries :
          a.camera_id = b.camera_id /\ a.segment_id # b.segment_id

\* C17: the channel never holds more than the configured number of
\* requests; a worker that submits to a full channel stays in send until a
\* place is free, and a worker that leaves send while its task is alive has
\* had its request put at the end of the channel; a buffered request leaves
\* the channel only by being handed to the writer.
C17_BoundedQueueBackPressure ==
    [][ /\ Len(queue') <= WriterQueueSize
        /\ \A c \in Cameras :
              /\ (ipc[c] = "send" /\ Len(queue) >= WriterQueueSize)
                    => ipc'[c] \in {"send", "exited"}
              /\ (ipc[c] = "send" /\ ipc'[c] = "collect")
                    => /\ queue' = Append(queue, PendingRequest(c))
                       /\ sent' = Append(sent, PendingRequest(c))
        /\ (queue' # queue /\ Len(queue') <= Len(queue))
              => /\ wpc = "recv" /\ wpc' = "append"
                 /\ wreq' = Head(queue)
                 /\ queue' = Tail(queue)
      ]_vars

\* C17 witness: the channel is full, a worker is waiting in send, and the
\* channel has already accepted more requests than it can hold, so places
\* freed by the writer were taken by waiting workers.
C17_Witness ==
    /\ Len(queue) = WriterQueueSize
    /\ \E c \in Cameras : ipc[c] = "send"
    /\ Len(sent) > WriterQueueSize
    /\ wpc # "done"

\* rotate(): steps still ahead of the writer before the rotation is done, at
\* most
RotateRank ==
    CASE wpc = "rotate_poll" -> 3 + (ROTATE_MAX_POLLS - waited)
      [] wpc = "rotate_check" -> 2
      [] wpc = "rotate_write" -> 1
      [] OTHER -> 0

\* C18: rotate() terminates whatever the readers do: at most 50 polls are
\* slept, in every state inside rotate() the writer has a step to take, each
\* of its steps brings the rotation strictly nearer, and the last one
\* performs the rotation and leaves the writer at the write of the record.
C18_RotateTerminates ==
    [][ /\ waited' <= ROTATE_MAX_POLLS
        /\ RotateRank >= 0
        /\ RotateRank > 0 =>
              /\ ENABLED (RotateSleep \/ RotateLoopExit \/ RotateCheck
                             \/ RotateWrite)
              /\ <<wpc, waited>>' # <<wpc, waited>> => RotateRank' < RotateRank
        /\ (wpc = "rotate_write" /\ wpc' # wpc) =>
              /\ wpc' = "write"
              /\ slots'[write_idx] =
                    [pool_id |-> slots[write_idx].pool_id + MaxPools,
                     bytes_used |-> 0]
      ]_vars

\* C18 witness: a reader kept its guard through all 50 polls, the rotation
\* was done all the same, the record was appended and inserted, and the
\* writer is back at recv() while the guard is still held.
C18_Witness ==
    /\ wpc = "recv"
    /\ op = "insert"
    /\ waited = ROTATE_MAX_POLLS
    /\ stalled
    /\ counters[write_idx] > 0
    /\ \E e \in index.entries : e.location = hist[Len(hist)].loc

\* guards on slot s that are acquired and not yet dropped
GuardsHeld(s) ==
    {r \in Readers : rpc[r] \in {"guarded", "read"} /\ rseg[r].pool_idx = s}

EvictedNotInserted ==
    \/ /\ wpc = "append"
       /\ writer_expects_rotation(slots[write_idx].bytes_used,
                                  record_size_of(wreq.data), PoolCapacity)
    \/ wpc \in {"rotate_poll", "rotate_check", "rotate_write"}
    \/ wpc = "write" /\ op = "rotate"
    \/ wpc = "insert" /\ op = "append_rotate"

\* C20: no reader of the index looks at it between the eviction the writer
\* applied for a request and the insert for the same request.
C20_EvictInsertAtomic ==
    [][(\E r \in Readers : rpc[r] = "idle" /\ rpc'[r] = "found")
          => ~EvictedNotInserted]_vars

\* live records of slot s that were appended before position n of the history
LiveBefore(s, n) == {i \in LiveIdx : hist[i].loc.pool_idx = s /\ i < n}

RECURSIVE SumRecordSizes(_)
SumRecordSizes(I) ==
    IF I = {} THEN 0
    ELSE LET i == CHOOSE x \in I : TRUE
         IN  hist[i].loc.record_size + SumRecordSizes(I \ {i})

\* C21: on a freshly opened pool, each slot's bytes_used is the sum of the
\* sizes of the records appended into it since its last rotation; every
\* append returns record_size = 40 + |data|, record_offset = 64 + the
\* bytes_used it found, the write slot and that slot's current pool_id, and
\* adds record_size to bytes_used; the first append lands in slot 0 at
\* offset 64.
C21_BytesUsedIsSumOfRecords ==
    reopens = 0 =>
        /\ \A s \in Slots :
              slots[s].bytes_used = SumRecordSizes(LiveBefore(s, Len(hist) + 1))
        /\ \A i \in DOMAIN hist :
              hist[i].loc.record_size = RECORD_HEADER_SIZE + Len(hist[i].req.data)
        /\ \A i \in LiveIdx :
              LET l == hist[i].loc
              IN  /\ l.record_offset =
                        POOL_HEADER_SIZE + SumRecordSizes(LiveBefore(l.pool_idx, i))
                  /\ l.pool_id = slots[l.pool_idx].pool_id
        /\ hist # <<>> =>
              /\ hist[Len(hist)].loc.pool_idx = write_idx
              /\ hist[1].loc.pool_idx = 0
              /\ hist[1].loc.record_offset = POOL_HEADER_SIZE

\* C21 witness: after a rotation, the write slot holds two records behind
\* one another, and the other slot still holds one.
C21_Witness ==
    /\ reopens = 0
    /\ rot_ids # <<>>
    /\ Cardinality(LiveBefore(write_idx, Len(hist) + 1)) = 2
    /\ \E s \in Slots : s # write_idx /\ slots[s].bytes_used > 0

\* C22: a configuration in which a knob (chunk_size_mb, max_pools,
\* segment_duration_secs, writer_queue_size) is zero is rejected when it is
\* loaded, and no pool, writer or worker is started from it.
AnyKnobZero(c) ==
    \/ c.chunk_size_mb = 0
    \/ c.max_pools = 0
    \/ c.segment_duration_secs = 0
    \/ c.writer_queue_size = 0

C22_ZeroKnobRejected ==
    AnyKnobZero(cfg) =>
        /\ boot \in {"load", "exit"}
        /\ started = NothingStarted

\* the append that follows a received request req rotates: the record fits
\* a pool but not the space left in the write slot
AppendRotates(req) ==
    /\ ~segment_too_large(record_size_of(req.data), PoolCapacity)
    /\ current_slot_full(slots[write_idx].bytes_used,
                         record_size_of(req.data), PoolCapacity)

\* C23: for every request the writer processes, the index entries of slot
\* next = (cur + 1) mod max_pools are evicted exactly when the following
\* append rotates into next, and they are gone before the rotation rewrites
\* the slot; when the append does not rotate, no index entry is evicted.
C23_EvictIffAppendRotates ==
    [][/\ (wpc = "recv" /\ wpc' = "append") =>
            index' = IF AppendRotates(wreq')
                     THEN evict_pool(index, (write_idx + 1) % MaxPools)
                     ELSE index
       /\ (wpc = "append" /\ wpc' = "insert" /\ write_idx' # write_idx) =>
            \A e \in index.entries : e.location.pool_idx # write_idx'
      ]_vars

\* C25: when the writer dequeues a request whose record fits in no pool,
\* the request is discarded and nothing else changes: no index entry is
\* inserted or evicted, no slot is rotated, and the writer is ready for the
\* next request.
C25_OversizedRequestChangesNothing ==
    [][/\ (wpc = "recv" /\ wpc' = "append"
            /\ segment_too_large(record_size_of(wreq'.data), PoolCapacity)) =>
            /\ index' = index
            /\ UNCHANGED <<poolVars, counters, hist, rot_ids>>
       /\ (wpc = "append" /\ op' # "reopen"
            /\ segment_too_large(record_size_of(wreq.data), PoolCapacity)) =>
            /\ wpc' = "recv"
            /\ UNCHANGED <<index, poolVars, counters, hist, rot_ids>>
      ]_vars

\* the requests the writer has taken out of the channel so far
Dequeued == SubSeq(sent, 1, Len(sent) - Len(queue))

C26_ReadSeesLookedUpGeneration ==
    [][\A r \in Readers :
          ( /\ rpc[r] = "guarded"
            /\ rpc'[r] = "read"
            /\ ~stalled
            /\ waited < ROTATE_MAX_POLLS )
          => slots[rseg[r].pool_idx].pool_id = rseg[r].pool_id]_vars

\* C27: an append rotates if and only if the record fits a pool but not the
\* space left in the write slot (bytes_used + record_size > pool_capacity);
\* write_idx then advances by exactly one modulo max_pools, and in every
\* other case write_idx stays where it is.
C27_RotateIffSlotFull ==
    [][(wpc = "append" /\ op' # "reopen") =>
          /\ (op' = "append_rotate") <=>
                ( /\ record_size_of(wreq.data) <= PoolCapacity
                  /\ slots[write_idx].bytes_used + record_size_of(wreq.data)
                        > PoolCapacity )
          /\ write_idx' = IF op' = "append_rotate"
                          THEN (write_idx + 1) % MaxPools
                          ELSE write_idx
          /\ (op' = "append_rotate") <=> (rot_ids' # rot_ids)
      ]_vars

\* an append has just filled the write slot to the last byte without
\* rotating, after the ring has wrapped once
C27_Witness ==
    /\ op = "append"
    /\ slots[write_idx].bytes_used = PoolCapacity
    /\ Len(rot_ids) = 2

\* a step of rotate(), from the rotation test of append to the header write
RotateStep ==
    /\ <<wpc, waited>>' # <<wpc, waited>>
    /\ \/ wpc = "append" /\ wpc' = "rotate_poll"
       \/ wpc \in {"rotate_poll", "rotate_check", "rotate_write"}

\* C28: a rotation changes write_idx and, of the slot rotated into, the
\* pool_id, bytes_used and the on-disk header, and nothing else: the other
\* slots and their files, the body of the target file, the read counters
\* and the index stay as they are.
C28_RotateFrame ==
    [][RotateStep =>
          /\ write_idx' = IF wpc = "append" THEN (write_idx + 1) % MaxPools
                          ELSE write_idx
          /\ \A s \in Slots \ {write_idx'} :
                slots'[s] = slots[s] /\ disk'[s] = disk[s]
          /\ disk'[write_idx'].body = disk[write_idx'].body
          /\ wpc # "rotate_write" =>
                slots' = slots /\ disk' = disk
          /\ wpc = "rotate_write" =>
                /\ slots'[write_idx].bytes_used = 0
                /\ disk'[write_idx].magic
                /\ disk'[write_idx].pool_id = slots'[write_idx].pool_id
          /\ counters' = counters
          /\ index' = index
      ]_vars

\* a rotation has just rewritten the header of a slot that held a record,
\* while the index has entries and a reader holds a guard
C28_Witness ==
    /\ op = "rotate"
    /\ wpc = "write"
    /\ disk[write_idx].body # FreshFile.body
    /\ index.entries # {}
    /\ \E s \in Slots : counters[s] > 0

\* number of whole records at the head of a sequence of pieces
RECURSIVE IntactPrefix(_)
IntactPrefix(q) ==
    IF q = <<>> \/ Head(q).kind # "rec" THEN 0 ELSE 1 + IntactPrefix(Tail(q))

\* what a scan of slot s has to return for the pieces its body holds
ExpectedScan(s) ==
    [k \in 1..IntactPrefix(pieces[s]) |->
        LET req == pieces[s][k].req
        IN  [camera_id |-> req.camera_id,
             start_ts |-> timestamp_opt(timestamp(req.start_ts)),
             end_ts |-> timestamp_opt(timestamp(req.end_ts)),
             pool_idx |-> s,
             pool_id |-> slots[s].pool_id,
             record_offset |->
                 POOL_HEADER_SIZE + PiecesLen(SubSeq(pieces[s], 1, k - 1)),
             record_size |-> RECORD_HEADER_SIZE + Len(req.data)]]

ScannedOf(s) == SelectSeq(scanned, LAMBDA r : r.pool_idx = s)

\* C29: the scan of a slot returns the longest prefix of well-formed records
\* from offset 64: every intact record before the first position whose four
\* bytes are not NREC or whose declared record runs past the pool body,
\* with its offset and size, and nothing behind that position.
C29_ScanReturnsIntactPrefix ==
    op = "reopen" => \A s \in Slots : ScannedOf(s) = ExpectedScan(s)

\* a scan that recovered the record in front of a torn one in one slot and
\* nothing in a slot whose body starts with four bytes that are not NREC
\* and holds a whole record behind them
C29_Witness ==
    /\ op = "reopen"
    /\ \E s, t \in Slots :
          /\ Len(pieces[s]) = 2
          /\ pieces[s][1].kind = "rec"
          /\ pieces[s][2].kind = "torn"
          /\ Len(ScannedOf(s)) = 1
          /\ Len(pieces[t]) = 2
          /\ pieces[t][1].kind = "junk"
          /\ pieces[t][2].kind = "rec"
          /\ ScannedOf(t) = <<>>

\* C30: on open, a slot whose pool header magic is missing or invalid is
\* adopted as empty, pool_id = 0 and bytes_used = 0, and yields no scanned
\* record, whatever its body holds.
C30_BadHeaderSlotIsEmpty ==
    op = "reopen" =>
        \A s \in Slots :
            ~disk[s].magic =>
                /\ slots[s] = [pool_id |-> 0, bytes_used |-> 0]
                /\ ScannedOf(s) = <<>>

\* C31: within one process, after the start-up rebuild, insert returns the
\* counter and increments it: the new entry carries the returned id, the
\* ids returned by successive inserts are strictly increasing, the first id
\* on an empty index is 0, no two live entries share an id, and an id whose
\* entry was evicted is never handed out again.
C31_SegmentIdsFresh ==
    [][(qarg'.fn = "insert") =>
          /\ qarg'.returned = index.segment_counter
          /\ index'.segment_counter = index.segment_counter + 1
          /\ \E e \in index'.entries \ index.entries :
                /\ e.segment_id = qarg'.returned
                /\ index'.entries = index.entries \cup {e}
          /\ \A i \in DOMAIN ix_log : ix_log[i].segment_id < qarg'.returned
          /\ (index = EmptyIndex) => qarg'.returned = 0
          /\ \A a, b \in index'.entries :
                a.segment_id = b.segment_id => a = b
      ]_vars

\* an insert after the rebuild and after an eviction that emptied a slot
C31_Witness ==
    /\ qarg.fn = "insert"
    /\ qarg.returned = 2
    /\ reopens = 1
    /\ \E i \in DOMAIN ix_log : ~ix_log[i].live

\* C32: rebuild_from_scanned(records) discards every previous entry and
\* leaves exactly one entry per given record, the i-th record (0-based)
\* with segment_id i, whatever the index held before; a second rebuild with
\* the same records gives the same index.
C32_RebuildExactlyRecords ==
    [][(qarg'.fn = "rebuild_from_scanned") =>
          LET records == qarg'.records
          IN  /\ index'.segment_counter = Len(records)
              /\ Cardinality(index'.entries) = Len(records)
              /\ \A i \in DOMAIN records :
                    \E e \in index'.entries :
                        /\ e.segment_id = i - 1
                        /\ e.camera_id = records[i].camera_id
                        /\ e.start_ts = records[i].start_ts
                        /\ e.end_ts = records[i].end_ts
                        /\ e.location.pool_idx = records[i].pool_idx
                        /\ e.location.pool_id = records[i].pool_id
                        /\ e.location.record_offset = records[i].record_offset
                        /\ e.location.record_size = records[i].record_size
              /\ rebuild_from_scanned(records) = index'
      ]_vars

\* a rebuild with two records has just been applied
C32_Witness ==
    /\ qarg.fn = "rebuild_from_scanned"
    /\ Len(qarg.records) = 2
    /\ index.segment_counter = 2
    /\ reopens = 1

\* C33: all_segments() iterates the live entries of all cameras in
\* insertion order, that is by ascending segment_id, whatever the cameras
\* and start_ts values of the inserts were.
C33_AllSegmentsInInsertionOrder ==
    (qarg.fn = "all_segments") =>
        /\ Range(qres) = index.entries
        /\ Len(qres) = Cardinality(index.entries)
        /\ \A i, j \in DOMAIN qres :
              i < j => qres[i].segment_id < qres[j].segment_id

\* C39: every location returned by append lies wholly inside one pool body
\* (record_offset >= 64 and record_offset + record_size <= 64 +
\* pool_capacity), bytes_used never exceeds pool_capacity, and the byte
\* ranges of two records appended into the same slot since its last
\* rotation are disjoint.
C39_RecordsInsideBodyAndDisjoint ==
    /\ \A s \in Slots : slots[s].bytes_used <= PoolCapacity
    /\ \A i \in DOMAIN hist :
          /\ hist[i].loc.record_offset >= POOL_HEADER_SIZE
          /\ hist[i].loc.record_offset + hist[i].loc.record_size
                <= POOL_HEADER_SIZE + PoolCapacity
          /\ hist[i].loc.pool_idx \in Slots
    /\ \A i, j \in LiveIdx :
          (i < j /\ hist[i].loc.pool_idx = hist[j].loc.pool_idx) =>
              \/ hist[i].loc.record_offset + hist[i].loc.record_size
                    <= hist[j].loc.record_offset
              \/ hist[j].loc.record_offset + hist[j].loc.record_size
                    <= hist[i].loc.record_offset

\* the ring has wrapped and two live records fill the write slot to its
\* last byte
C39_Witness ==
    /\ Len(rot_ids) = 2
    /\ slots[write_idx].bytes_used = PoolCapacity
    /\ Cardinality({i \in LiveIdx : hist[i].loc.pool_idx = write_idx}) = 2
    /\ wpc = "recv"

\* C40: with max_reconnect_attempts = n > 0 the supervisor gives up after
\* exactly n consecutive failed connection attempts; the failure counter is
\* 0 after every successful connection; with max_reconnect_attempts = 0 it
\* never gives up; and it stops when the receiver of its streams has been
\* dropped.
C40_SupervisorGivesUpAfterN ==
    /\ sup_pc = "gave_up" => (sup_n > 0 /\ fails = sup_n)
    /\ sup_n = 0 => sup_pc # "gave_up"
    /\ (sup_n > 0 /\ fails >= sup_n) => sup_pc = "gave_up" \/ ENABLED SupGiveUp
    /\ sup_pc = "send" => attempt = 0
    /\ sup_pc = "stopped" => ~stream_rx
    /\ (sup_pc = "send" /\ ~stream_rx) => ENABLED SupSendErr

\* the phase of the writer task: 0 Init (spawned, not polled yet),
\* 1 Recovering (records scanned, index not rebuilt yet), 2 Running,
\* 3 Draining (every Sender is gone), 4 Stopped
PhaseRank ==
    IF wpc = "init" THEN 0
    ELSE IF wpc = "rebuild" THEN 1
    ELSE IF wpc \in {"done", "aborted"} THEN 4
    ELSE IF NoSenders THEN 3
    ELSE 2

\* C34: within one run of the process the writer task moves through Init,
\* Recovering, Running, Draining and Stopped in that order and never back;
\* while it is in Init or Recovering it takes no request out of the channel,
\* and when it enters the receive loop the index is the rebuild of what
\* scan_all_pools found in the pool files (the empty index when the scan
\* failed and there is no record list); once the task has stopped, nothing
\* is written to the pool files, the slots or the index.
C34_WriterLifecycleOrder ==
    [][ /\ op' # "restart" => PhaseRank' >= PhaseRank
        /\ wpc \in {"init", "rebuild"} =>
              /\ wreq' = NoReq
              /\ Len(queue') >= Len(queue)
              /\ hist' = hist
        /\ (wpc \in {"init", "rebuild"} /\ wpc' = "recv") =>
              /\ index' = rebuild_from_scanned(scanned')
              /\ scanned' \in {scan_all_pools(disk, slots), <<>>}
              /\ op' = "rebuild" => scanned' = scan_all_pools(disk, slots)
        /\ (wpc \in {"done", "aborted"} /\ op' # "restart") =>
              /\ wpc' = wpc
              /\ UNCHANGED <<poolVars, index, hist>>
      ]_vars

\* C34 witness: a second run has recovered records of the first from the
\* pool files, has then taken and indexed a request of its own, and has
\* stopped.
C34_Witness ==
    /\ reopens = 1
    /\ scanned # <<>>
    /\ sent # <<>>
    /\ index.segment_counter > Len(scanned)
    /\ wpc \in {"done", "aborted"}

\* C35 as stated: once the last Sender is gone, the requests that were
\* waiting in the channel at that moment stay there: none of them is taken
\* out, appended or indexed.
C35_QueuedAtCloseDropped == NoSenders => Len(queue) = qclose

\* C35: closing the request channel drops nothing: the writer returns from
\* its loop only when every Sender is gone and the channel is empty.
\* Requests are lost at shutdown only through writer_handle.abort(): the
\* abort takes effect before the first poll or at rx.recv(), never between
\* the dequeue of a request and the end of its processing, so every request
\* taken out of the channel that fits in a pool is appended, in order, and
\* what the channel still holds at that moment is dropped.
C35_OnlyAbortDropsQueued ==
    /\ [](wpc = "done" => (NoSenders /\ queue = <<>>))
    /\ [](wpc = "aborted" => (w_abort /\ wreq = NoReq))
    /\ []((reopens = 0 /\ wpc \in {"recv", "done", "aborted"}) =>
             Appended = Fitting(Dequeued))
    /\ [][(wpc # "aborted" /\ wpc' = "aborted") =>
             (wpc \in {"init", "recv"} /\ queue' = queue)]_vars

\* C35 witness: shutdown found two requests in the channel; the writer
\* went on to take and append one of them after the channel was closed, and
\* was cancelled with the other still queued.
C35_Witness ==
    /\ wpc = "aborted"
    /\ reopens = 0
    /\ qclose = 2
    /\ Len(queue) = 1
    /\ Len(hist) >= 1
    /\ hist[Len(hist)].req = sent[Len(sent) - 1]

\* the requests the worker has passed to writer_tx.send so far, the one it
\* is still waiting to get into the channel included
Submitted == sent \o (IF wk_pc = "send" THEN <<wk_req>> ELSE <<>>)

RECURSIVE Concat(_)
\* the byte sequences of q joined in order
Concat(q) == IF q = <<>> THEN <<>> ELSE Head(q) \o Concat(Tail(q))

SubmittedData == [i \in DOMAIN Submitted |-> Submitted[i].data]

\* C36: for one ingester that is not cancelled, with the writer channel
\* open: no WriteRequest with empty data is submitted; the segment buffer
\* is empty when flush_segment has taken it into a request; and the data of
\* the submitted requests, joined in submission order and followed by what
\* is still in the buffer, is the fragments read from the streams joined in
\* the order they were read -- at every point where the buffer is empty the
\* submitted data equals the received data.
C36_SubmittedIsReceived ==
    /\ \A i \in DOMAIN Submitted : Submitted[i].data # <<>>
    /\ wk_pc = "send" => segment_buf = <<>>
    /\ Concat(SubmittedData) \o segment_buf = Concat(received)

\* C36 witness: two requests were submitted, the first made of a two-byte
\* fragment and an empty one, the second of a one-byte fragment.
C36_Witness ==
    /\ Len(sent) = 2
    /\ Len(received) = 3
    /\ received[2] = <<>>
    /\ Len(sent[1].data) = 2
    /\ Len(sent[2].data) = 1
    /\ segment_buf = <<>>
    /\ wk_pc = "select"

\* C37: the ingester abandons its stream and waits for a reconnect only
\* when the upstream source has closed, and then with an empty buffer (a
\* non-empty buffer is flushed first); in particular the segment deadline
\* firing while the buffer is empty and the source is still open does not
\* end the stream.
C37_AbandonsOnlyClosedSource ==
    [][(wk_pc = "select" /\ wk_pc' = "wait_stream") =>
            (~src_open /\ segment_buf = <<>>)]_vars

\* C38: every submitted WriteRequest has start_ts <= end_ts, and of two
\* consecutive requests of the camera the later one starts no earlier than
\* the earlier one ends, also when a submission had to wait for room in the
\* channel and across a reconnect.
C38_SegmentsOrderedInTime ==
    /\ \A i \in DOMAIN Submitted : Submitted[i].start_ts <= Submitted[i].end_ts
    /\ \A i \in DOMAIN Submitted :
          i > 1 => Submitted[i].start_ts >= Submitted[i - 1].end_ts

\* C38 witness: the channel is full with two requests, the second of which
\* ends later than it starts, and the third request has been waiting
\* in send while time passed.
C38_Witness ==
    /\ wk_pc = "send"
    /\ Len(sent) = WriterQueueSize
    /\ channel_full(queue, WriterQueueSize)
    /\ now > wk_req.end_ts
    /\ sent[2].end_ts > sent[2].start_ts

====
